---------------------------- MODULE Spec2Model ----------------------------
(***************************************************************************)
(* Beat Survivor (src/src/*.py): the simulation loop of Game.update, the   *)
(* Player / Weapon / Attack / Enemy entities it drives and the reactive    *)
(* Music state machine.                                                    *)
(*                                                                         *)
(* Numbers.  Python's float is the IEEE-754 binary64 double, and the model *)
(* computes with doubles bit for bit: a double is a record of its sign s,  *)
(* its biased exponent e (0 for a zero) and the 52 bits of its fraction as *)
(* h (the high 26) and l (the low 26), and +, -, *, /, math.sqrt and the   *)
(* comparisons are the IEEE operations with round-to-nearest-even.         *)
(* Infinities, NaNs and subnormal numbers are outside the values the game  *)
(* computes with and are not represented.  Every attribute that can hold a *)
(* float (positions, velocities, hp, speeds, angles) is a double, an int   *)
(* stored in it being the double of the same value; the counters and the   *)
(* attributes that only ever hold an int stay integers.                    *)
(* math.sin and math.cos are the sin and cos of the C library, which are   *)
(* not always the correctly rounded values; the model computes them by the *)
(* library's own algorithm (glibc 2.36 on x86-64 with fused multiply-add), *)
(* operation for operation, and gives the library's result.                *)
(***************************************************************************)
EXTENDS Integers, Sequences, FiniteSets, TLC

VARIABLES
    running,            \* FALSE once pyxel.quit() was called
    player,             \* Game.player
    enemies,            \* Game.enemies
    enemy_spawn_timer,  \* Game.enemy_spawn_timer
    score,              \* Game.score
    level_up_pending,   \* Game.level_up_options is not None
    level_up_options,   \* Game.level_up_options (<< >> while it is None)
    selected_option,    \* Game.selected_option
    elapsed_frames,     \* Game.elapsed_frames
    elapsed_minutes,    \* Game.elapsed_minutes
    music,              \* Game.music
    last,               \* what the latest step read and did (observation only)
    probe               \* operands and result of the latest direct call (unit specifications)

vars == << running, player, enemies, enemy_spawn_timer, score, level_up_pending,
           level_up_options, selected_option, elapsed_frames, elapsed_minutes,
           music, last, probe >>

----------------------------------------------------------------------------
(* Integer helpers *)

ScreenWidth == 160
ScreenHeight == 120

Min(a, b) == IF a <= b THEN a ELSE b
Max(a, b) == IF a >= b THEN a ELSE b

----------------------------------------------------------------------------
(* Doubles *)

T12 == 2^12
T14 == 2^14
T16 == 2^16
T24 == 2^24
T25 == 2^25
T26 == 2^26
T27 == 2^27
Pow2Table == [k \in 0..30 |-> 2^k]
Pow2(k) == Pow2Table[k]

\* A double: sign s, biased exponent e (0 for zero), and the 52 fraction bits
\* as h (the high 26) and l (the low 26)
FZero == [s |-> 0, e |-> 0, h |-> 0, l |-> 0]
MkDouble(s, e, H, L) == [s |-> s, e |-> e, h |-> H - T26, l |-> L]
FNeg(a) == [a EXCEPT !.s = 1 - a.s]
FAbs(a) == [a EXCEPT !.s = 0]

CmpMag(a, b) ==
    IF a.e # b.e THEN (IF a.e < b.e THEN -1 ELSE 1)
    ELSE IF a.h # b.h THEN (IF a.h < b.h THEN -1 ELSE 1)
    ELSE IF a.l # b.l THEN (IF a.l < b.l THEN -1 ELSE 1)
    ELSE 0

\* -1, 0, 1 as a < b, a = b, a > b (the two zeros are equal)
FCmp(a, b) ==
    IF a.e = 0 /\ b.e = 0 THEN 0
    ELSE IF a.e = 0 THEN (IF b.s = 0 THEN -1 ELSE 1)
    ELSE IF b.e = 0 THEN (IF a.s = 0 THEN 1 ELSE -1)
    ELSE IF a.s # b.s THEN (IF a.s = 1 THEN -1 ELSE 1)
    ELSE IF a.s = 0 THEN CmpMag(a, b) ELSE CmpMag(b, a)

FLt(a, b) == FCmp(a, b) < 0
FLe(a, b) == FCmp(a, b) <= 0

\* round to nearest, ties to even
Round(s, e, H, L, G, T) ==
    IF G >= 2 /\ (G = 3 \/ T = 1 \/ L % 2 = 1)
    THEN IF L + 1 < T26 THEN MkDouble(s, e, H, L + 1)
         ELSE IF H + 1 < T27 THEN MkDouble(s, e, H + 1, 0)
         ELSE MkDouble(s, e + 1, T26, 0)
    ELSE MkDouble(s, e, H, L)

ShiftRight(H, L, d) ==
    IF d = 0 THEN << H, L, 0, 0 >>
    ELSE IF d <= 26 THEN
        LET P  == Pow2(d)
            r4 == (L % P) * 4
        IN  << H \div P, (H % P) * Pow2(26 - d) + L \div P, r4 \div P,
               IF r4 % P = 0 THEN 0 ELSE 1 >>
    ELSE
        LET P  == Pow2(d - 26)
            r4 == (H % P) * 4 + L \div T24
        IN  << 0, H \div P, r4 \div P, IF r4 % P = 0 /\ L % T24 = 0 THEN 0 ELSE 1 >>

\* |a| + |b| with the sign s, sh being |b| shifted to the exponent of a
AddShifted(s, a, sh) ==
    LET L0 == a.l + sh[2]
        L1 == L0 % T26
        H1 == a.h + T26 + sh[1] + L0 \div T26
    IN  IF H1 < T27 THEN Round(s, a.e, H1, L1, sh[3], sh[4])
        ELSE Round(s, a.e + 1, H1 \div 2, (H1 % 2) * T25 + L1 \div 2,
                   (L1 % 2) * 2 + sh[3] \div 2,
                   IF sh[3] % 2 = 1 \/ sh[4] = 1 THEN 1 ELSE 0)

AddMag(s, a, b) ==
    IF a.e - b.e > 54 THEN [a EXCEPT !.s = s]
    ELSE AddShifted(s, a, ShiftRight(b.h + T26, b.l, a.e - b.e))

RECURSIVE BitLenFrom(_, _, _)
BitLenFrom(n, lo, step) ==
    IF step = 0 THEN lo + 1
    ELSE IF lo + step <= 30 /\ n >= Pow2(lo + step) THEN BitLenFrom(n, lo + step, step \div 2)
    ELSE BitLenFrom(n, lo, step \div 2)

\* the number of bits of n, 0 < n < 2^31
BitLen(n) == BitLenFrom(n, 0, 16)

\* H L G shifted left by k >= 2 bits (G has at most its first bit set)
ShiftLeft(s, e, H, L, G, k) ==
    IF k <= 26
    THEN MkDouble(s, e - k, H * Pow2(k) + L \div Pow2(26 - k),
                  (L % Pow2(26 - k)) * Pow2(k) + (G \div 2) * Pow2(k - 1))
    ELSE MkDouble(s, e - k, L * Pow2(k - 26) + (G \div 2) * Pow2(k - 27), 0)

\* A difference H L G (G two guard bits, T sticky) brought back to 27 leading
\* bits.  One that lost two leading bits or more is exact, with at most the
\* first guard bit set.
Normalise(s, e, H, L, G, T) ==
    IF H >= T26 THEN Round(s, e, H, L, G, T)
    ELSE IF H >= T25
    THEN Round(s, e - 1, H * 2 + L \div T25, (L % T25) * 2 + G \div 2, (G % 2) * 2, T)
    ELSE IF H > 0 THEN ShiftLeft(s, e, H, L, G, 27 - BitLen(H))
    ELSE IF L > 0 THEN ShiftLeft(s, e, H, L, G, 53 - BitLen(L))
    ELSE ShiftLeft(s, e, H, L, G, 53)

\* |a| - |b| with the sign s, sh being |b| shifted to the exponent of a
SubShifted(s, a, sh) ==
    LET g0 == 0 - sh[3] - sh[4]
        l0 == a.l - sh[2] - (IF g0 < 0 THEN 1 ELSE 0)
        H  == a.h + T26 - sh[1] - (IF l0 < 0 THEN 1 ELSE 0)
    IN  Normalise(s, a.e, H, l0 % T26, g0 % 4, sh[4])

SubMag(s, a, b) ==
    IF a.e - b.e > 54 THEN [a EXCEPT !.s = s]
    ELSE SubShifted(s, a, ShiftRight(b.h + T26, b.l, a.e - b.e))

FAdd(a, b) ==
    IF a.e = 0 THEN (IF b.e = 0 THEN [FZero EXCEPT !.s = a.s * b.s] ELSE b)
    ELSE IF b.e = 0 THEN a
    ELSE IF a.s = b.s THEN (IF CmpMag(a, b) >= 0 THEN AddMag(a.s, a, b) ELSE AddMag(a.s, b, a))
    ELSE LET c == CmpMag(a, b)
         IN  IF c = 0 THEN FZero
             ELSE IF c > 0 THEN SubMag(a.s, a, b) ELSE SubMag(b.s, b, a)

FSub(a, b) == FAdd(a, FNeg(b))

\* the 53-bit significand of a as four limbs base 2^14, least significant first
Limbs(a) ==
    << a.l % T14, a.l \div T14 + ((a.h + T26) % 4) * T12, ((a.h + T26) \div 4) % T14,
       (a.h + T26) \div T16 >>

\* the columns of the product of two four-limb numbers
MulCols(x, y) ==
    << x[1] * y[1],
       x[1] * y[2] + x[2] * y[1],
       x[1] * y[3] + x[2] * y[2] + x[3] * y[1],
       x[1] * y[4] + x[2] * y[3] + x[3] * y[2] + x[4] * y[1],
       x[2] * y[4] + x[3] * y[3] + x[4] * y[2],
       x[3] * y[4] + x[4] * y[3],
       x[4] * y[4] >>

\* the columns with the carries passed on: limbs base 2^14, the last one whole
RECURSIVE Carry(_, _, _)
Carry(cols, k, c) ==
    IF k = Len(cols) THEN << cols[k] + c >>
    ELSE << (cols[k] + c) % T14 >> \o Carry(cols, k + 1, (cols[k] + c) \div T14)

\* the 105 or 106 bits p of a product rounded to a double
MulRound(s, e, p) ==
    LET low == p[4] \div 256 + p[5] * 64 + (p[6] % 256) * Pow2(20)
        H   == p[6] \div 256 + (p[7] % T14) * 64 + (p[7] \div T14) * Pow2(20)
        L   == low \div 4
        G   == low % 4
        T   == IF p[1] = 0 /\ p[2] = 0 /\ p[3] = 0 /\ p[4] % 256 = 0 THEN 0 ELSE 1
    IN  IF H < T27 THEN Round(s, e, H, L, G, T)
        ELSE Round(s, e + 1, H \div 2, (H % 2) * T25 + L \div 2, (L % 2) * 2 + G \div 2,
                   IF G % 2 = 1 \/ T = 1 THEN 1 ELSE 0)

FMul(a, b) ==
    IF a.e = 0 \/ b.e = 0 THEN [FZero EXCEPT !.s = (a.s + b.s) % 2]
    ELSE IF b.h = 0 /\ b.l = 0      \* by a power of two
    THEN [a EXCEPT !.s = (a.s + b.s) % 2, !.e = a.e + b.e - 1023]
    ELSE IF a.h = 0 /\ a.l = 0
    THEN [b EXCEPT !.s = (a.s + b.s) % 2, !.e = a.e + b.e - 1023]
    ELSE MulRound((a.s + b.s) % 2, a.e + b.e - 1023, Carry(MulCols(Limbs(a), Limbs(b)), 1, 0))

\* the double of the sign s and the k-bit magnitude m > 0
FromMag(s, m, k) ==
    IF k <= 27 THEN MkDouble(s, 1022 + k, m * Pow2(27 - k), 0)
    ELSE MkDouble(s, 1022 + k, m \div Pow2(k - 27), (m % Pow2(k - 27)) * Pow2(53 - k))

FromInt(n) ==
    IF n = 0 THEN FZero
    ELSE IF n < 0 THEN FromMag(1, 0 - n, BitLen(0 - n))
    ELSE FromMag(0, n, BitLen(n))

\* V = v4 v3 v2 v1 (limbs base 2^14, v4 >= 2^13), R = r4 r3 r2 r1 < V:
\* << R * 2^14 - q * V as limbs, borrow >>
MulSub(R, V, q) ==
    LET t0 == 0 - q * V[4]
        t1 == R[4] - q * V[3] + t0 \div T14
        t2 == R[3] - q * V[2] + t1 \div T14
        t3 == R[2] - q * V[1] + t2 \div T14
        t4 == R[1] + t3 \div T14
    IN  << t3 % T14, t2 % T14, t1 % T14, t0 % T14, t4 >>

\* the quotient digit q if R * 2^14 - q * V = m is not negative, else a smaller one
RECURSIVE DivAdjust(_, _, _, _)
DivAdjust(R, V, q, m) ==
    IF m[5] >= 0 THEN << m, q >> ELSE DivAdjust(R, V, q - 1, MulSub(R, V, q - 1))

\* the quotient digit estimated from the leading limbs
DivEstimate(R, V) ==
    IF (R[1] * T14 + R[2]) \div V[1] >= T14 THEN T14 - 1 ELSE (R[1] * T14 + R[2]) \div V[1]

DivTry(R, V, q) == DivAdjust(R, V, q, MulSub(R, V, q))

\* the next quotient digit of R / V and the remainder after it
DivDigit(R, V) == DivTry(R, V, DivEstimate(R, V))

\* n more quotient digits of R / V after the digits qs: << digits, remainder >>
RECURSIVE DivFrom(_, _, _, _)
DivAfter(d, V, n, qs) == DivFrom(d[1], V, n - 1, Append(qs, d[2]))
DivFrom(R, V, n, qs) == IF n = 0 THEN << qs, R >> ELSE DivAfter(DivDigit(R, V), V, n, qs)

DivPack(qs, r) ==
    << qs[1] * T14 + qs[2], qs[3] * T14 + qs[4],
       IF r[1] = 0 /\ r[2] = 0 /\ r[3] = 0 /\ r[4] = 0 THEN 0 ELSE 1 >>

DivResult(d) == DivPack(d[1], d[2])

\* floor(A * 2^55 / B) as << high 28 bits, low 28 bits, 1 if inexact >>, for
\* 53-bit A = AH * 2^26 + AL and B
DivBits(AH, AL, BH, BL) ==
    DivResult(DivFrom(<< AH \div T14, AH % T14, AL \div T12, (AL % T12) * 4 >>,
                      << BH \div Pow2(13), (BH % Pow2(13)) * 2 + BL \div T25,
                         (BL \div Pow2(11)) % T14, (BL % Pow2(11)) * 8 >>, 4, << >>))

\* the 55 or 56 bits q[1] * 2^28 + q[2] of a quotient rounded to a double
DivRound(s, e, q) ==
    IF q[1] >= T27
    THEN Round(s, e, q[1] \div 2, (q[1] % 2) * T25 + q[2] \div 8,
               (q[2] \div 2) % 4, IF q[2] % 2 = 1 \/ q[3] = 1 THEN 1 ELSE 0)
    ELSE Round(s, e - 1, q[1], q[2] \div 4, q[2] % 4, q[3])

FDiv(a, b) ==
    IF a.e = 0 THEN [FZero EXCEPT !.s = (a.s + b.s) % 2]
    ELSE IF b.h = 0 /\ b.l = 0      \* by a power of two
    THEN [a EXCEPT !.s = (a.s + b.s) % 2, !.e = a.e - b.e + 1023]
    ELSE IF a.h = b.h /\ a.l = b.l  \* equal significands
    THEN MkDouble((a.s + b.s) % 2, a.e - b.e + 1023, T26, 0)
    ELSE DivRound((a.s + b.s) % 2, a.e - b.e + 1023, DivBits(a.h + T26, a.l, b.h + T26, b.l))

Dec(n, d) == FDiv(FromInt(n), FromInt(d))
\* a three-limb number (base 2^26, most significant first) times 4, plus d
Shl2(x, d) == << x[1] * 4 + x[2] \div T24, (x[2] % T24) * 4 + x[3] \div T24, (x[3] % T24) * 4 + d >>
Shl1(x, d) == << x[1] * 2 + x[2] \div T25, (x[2] % T25) * 2 + x[3] \div T25, (x[3] % T25) * 2 + d >>
Ge3(x, y) ==
    IF x[1] # y[1] THEN x[1] > y[1] ELSE IF x[2] # y[2] THEN x[2] > y[2] ELSE x[3] >= y[3]
Sub3(x, y) ==
    LET l == x[3] - y[3]
        m == x[2] - y[2] - (IF l < 0 THEN 1 ELSE 0)
    IN  << x[1] - y[1] - (IF m < 0 THEN 1 ELSE 0), m % T26, l % T26 >>

\* the two bits of the radicand (nh * 2^26 + nl) * 2^56 that step i brings down
SqrtPair(nh, nl, i) ==
    IF i <= 13 THEN (nh \div Pow2(26 - 2 * i)) % 4
    ELSE IF i <= 26 THEN (nl \div Pow2(52 - 2 * i)) % 4 ELSE 0

\* bits i..to of the square root of (nh * 2^26 + nl) * 2^56, two bits of
\* the radicand at a time: << root, remainder >>
RECURSIVE SqrtBits(_, _, _, _, _, _)
SqrtBits(root, rem, nh, nl, i, to) ==
    IF i > to THEN << root, rem >>
    ELSE LET r == Shl2(rem, SqrtPair(nh, nl, i))
             t == Shl2(root, 1)
         IN  IF Ge3(r, t) THEN SqrtBits(Shl1(root, 1), Sub3(r, t), nh, nl, i + 1, to)
             ELSE SqrtBits(Shl1(root, 0), r, nh, nl, i + 1, to)

\* the bits i..to after the state st = << root, remainder >>
SqrtMore(st, nh, nl, i, to) == SqrtBits(st[1], st[2], nh, nl, i, to)

SqrtRound(e, st) ==
    Round(0, e, st[1][1] * T24 + st[1][2] \div 4, (st[1][2] % 4) * T24 + st[1][3] \div 4,
          st[1][3] % 4, IF st[2][1] = 0 /\ st[2][2] = 0 /\ st[2][3] = 0 THEN 0 ELSE 1)

\* the square root of (nh * 2^26 + nl) * 2^E, E even
SqrtOf(nh, nl, E) ==
    SqrtRound(E \div 2 + 1049,
              SqrtMore(SqrtMore(SqrtMore(SqrtBits(<< 0, 0, 0 >>, << 0, 0, 0 >>, nh, nl, 0, 13),
                                         nh, nl, 14, 27),
                                nh, nl, 28, 41),
                       nh, nl, 42, 54))

FSqrt(a) ==
    IF a.e = 0 THEN a
    ELSE IF (a.e - 1075) % 2 = 1
    THEN SqrtOf((a.h + T26) * 2 + a.l \div T25, (a.l % T25) * 2, a.e - 1076)
    ELSE SqrtOf(a.h + T26, a.l, a.e - 1075)

\* int(a): a truncated toward zero, |a| < 2^31
ToInt(a) ==
    IF a.e < 1023 THEN 0
    ELSE LET d == 1075 - a.e
             m == IF d >= 26 THEN (a.h + T26) \div Pow2(d - 26)
                  ELSE (a.h + T26) * Pow2(26 - d) + a.l \div Pow2(d)
         IN  IF a.s = 1 THEN 0 - m ELSE m

FMin(a, b) == IF FLt(b, a) THEN b ELSE a
FMax(a, b) == IF FLt(a, b) THEN b ELSE a
\* Whole numbers of any size: sequences of limbs base 2^13, least significant first
Limb == 2^13

RECURSIVE BAddFrom(_, _, _, _)
BAddFrom(a, b, k, c) ==
    IF k > Len(a) THEN << >>
    ELSE << (a[k] + b[k] + c) % Limb >> \o BAddFrom(a, b, k + 1, (a[k] + b[k] + c) \div Limb)
BAdd(a, b) == BAddFrom(a, b, 1, 0)
\* a - b for a >= b
BSub(a, b) == BAddFrom(a, [k \in 1..Len(b) |-> 0 - b[k]], 1, 0)

RECURSIVE BGeFrom(_, _, _)
BGeFrom(a, b, k) ==
    IF k = 0 THEN TRUE ELSE IF a[k] # b[k] THEN a[k] > b[k] ELSE BGeFrom(a, b, k - 1)
BGe(a, b) == BGeFrom(a, b, Len(a))

\* a * n with one more limb, 0 <= n < 2^17
RECURSIVE BScaleFrom(_, _, _, _)
BScaleFrom(a, n, k, c) ==
    IF k > Len(a) THEN << c >>
    ELSE << (a[k] * n + c) % Limb >> \o BScaleFrom(a, n, k + 1, (a[k] * n + c) \div Limb)
BScale(a, n) == BScaleFrom(a, n, 1, 0)

\* the limbs P placed q limbs up in a number of len limbs
BPut(P, q, len) == [k \in 1..len |-> IF k > q /\ k - q <= Len(P) THEN P[k - q] ELSE 0]

\* a * 2^n as a number of len limbs
BShl(a, n, len) == BPut(BScale(a, Pow2(n % 13)), n \div 13, len)

\* the sum of a[i] * b[j] over i + j = s, i >= lo
RECURSIVE BColumn(_, _, _, _)
BColumn(a, b, s, i) ==
    IF i > Len(a) \/ i >= s THEN 0
    ELSE a[i] * b[s - i] + BColumn(a, b, s, i + 1)

\* the product of a and b from the column s on, c carried in
RECURSIVE BProdFrom(_, _, _, _)
BProdLimb(a, b, s, t) == << t % Limb >> \o BProdFrom(a, b, s + 1, t \div Limb)
BProdFrom(a, b, s, c) ==
    IF s > Len(a) + Len(b) THEN << c >>
    ELSE BProdLimb(a, b, s, BColumn(a, b, s, IF s - Len(b) > 1 THEN s - Len(b) ELSE 1) + c)
BProd(a, b) == BProdFrom(a, b, 2, 0)

\* the 53-bit significand of a as five limbs
Limbs13(a) ==
    << a.l % Limb, a.l \div Limb, (a.h + T26) % Limb, ((a.h + T26) \div Limb) % Limb,
       (a.h + T26) \div T26 >>

RECURSIVE TopLimb(_, _)
TopLimb(S, k) == IF S[k] # 0 THEN k ELSE TopLimb(S, k - 1)

\* the six limbs W of the leading bits, of exponent e, rounded to a double
LimbsRound(s, e, W, lower) ==
    Round(s, e, W[6] * T14 + W[5] * 2 + W[4] \div T12,
          (W[4] % T12) * T14 + W[3] * 2 + W[2] \div T12,
          (W[2] \div Pow2(10)) % 4,
          IF W[2] % Pow2(10) # 0 \/ W[1] # 0 \/ lower THEN 1 ELSE 0)

\* S with the top limb t, which has bl bits
LimbsTop(s, S, e, t, bl) ==
    LimbsRound(s, e + 13 * (t - 1) + bl - 1,
               BScale([j \in 1..6 |-> IF t - 6 + j >= 1 THEN S[t - 6 + j] ELSE 0],
                      Pow2(13 - bl)),
               \E k \in 1..(t - 6) : S[k] # 0)

LimbsFrom(s, S, e, t) == LimbsTop(s, S, e, t, BitLen(S[t]))

\* the double nearest to S * 2^(e - 1023), S > 0, with the sign s
FromLimbs(s, S, e) == LimbsFrom(s, S, e, TopLimb(S, Len(S)))

\* The limbs of the sum of a product (10 limbs) and a double brought to one
\* exponent, which are at most 109 bits apart
FmaLimbs == 10 + 4

\* sp * P + sc * C for whole numbers P, C of FmaLimbs limbs, times 2^(e - 1023)
FmaSum(sp, P, sc, C, e) ==
    IF sp = sc THEN FromLimbs(sp, BAdd(P, C), e)
    ELSE IF BGe(P, C) THEN (IF BGe(C, P) THEN FZero ELSE FromLimbs(sp, BSub(P, C), e))
    ELSE FromLimbs(sc, BSub(C, P), e)

\* the product P * 2^(ep - 1023) plus the number C * 2^(ec - 1023).  One that
\* lies wholly under the last bit of the other counts for its sign only.
FmaAlign(sp, P, ep, sc, C, ec) ==
    FmaSum(sp, BShl(IF ec - ep > 109 THEN << 1 >> ELSE P,
                    IF ec >= ep THEN 0 ELSE IF ep - ec <= 56 THEN ep - ec ELSE 3, FmaLimbs),
           sc, BShl(IF ep - ec > 56 THEN << 1 >> ELSE C,
                    IF ec - ep > 109 THEN 109 ELSE IF ec >= ep THEN ec - ep ELSE 0, FmaLimbs),
           IF ec - ep > 109 THEN ec - 109
           ELSE IF ec >= ep THEN ep ELSE IF ep - ec <= 56 THEN ec ELSE ep - 3)

\* a * b + c rounded once (the fused multiply-add of the processor)
FFma(a, b, c) ==
    IF a.e = 0 \/ b.e = 0
    THEN (IF c.e = 0 THEN [FZero EXCEPT !.s = ((a.s + b.s) % 2) * c.s] ELSE c)
    ELSE IF c.e = 0 THEN FMul(a, b)
    ELSE FmaAlign((a.s + b.s) % 2, BProd(Limbs13(a), Limbs13(b)), a.e + b.e - 1023 - 104,
                  c.s, Limbs13(c), c.e - 52)

FCopySign(a, b) == [a EXCEPT !.s = b.s]

FOne == [s |-> 0, e |-> 1023, h |-> 0, l |-> 0]

\* math.sin and math.cos are the sin and cos of the C library (glibc 2.36,
\* sysdeps/ieee754/dbl-64/s_sin.c, as built for x86-64 processors with fused
\* multiply-add): polynomials around the nearest multiple of 1/128, whose sine
\* and cosine come from a table, after the argument is brought into
\* [-pi/4, pi/4].  The constants are those of the library.
\* 1.5 * 2^45: adding it leaves a multiple of 1/128
Big == [s |-> 0, e |-> 1068, h |-> 33554432, l |-> 0]
\* 0.126
TaylorBound == [s |-> 0, e |-> 1020, h |-> 536870, l |-> 61203284]
SN3 == [s |-> 1, e |-> 1020, h |-> 22369621, l |-> 22369557]
SN5 == [s |-> 0, e |-> 1016, h |-> 4473914, l |-> 2721583]
CS2 == [s |-> 0, e |-> 1022, h |-> 0, l |-> 0]
CS4 == [s |-> 1, e |-> 1018, h |-> 22369621, l |-> 22369589]
CS6 == [s |-> 0, e |-> 1013, h |-> 28334843, l |-> 31056441]
PS1 == [s |-> 1, e |-> 1020, h |-> 22369621, l |-> 22369621]
PS2 == [s |-> 0, e |-> 1016, h |-> 4473924, l |-> 17895118]
PS3 == [s |-> 1, e |-> 1010, h |-> 41969670, l |-> 31131832]
PS4 == [s |-> 0, e |-> 1004, h |-> 29849758, l |-> 60456665]
PS5 == [s |-> 1, e |-> 997, h |-> 45580272, l |-> 50126681]
\* 1.5 * 2^52: adding it rounds to an integer
ToInteger == [s |-> 0, e |-> 1075, h |-> 33554432, l |-> 0]
\* 2 / pi
HpInv == [s |-> 0, e |-> 1022, h |-> 18336795, l |-> 30001283]
\* pi / 2 in four pieces
MP1 == [s |-> 0, e |-> 1023, h |-> 38305494, l |-> 0]
MP2 == [s |-> 1, e |-> 996, h |-> 58172879, l |-> 0]
PP3 == [s |-> 1, e |-> 968, h |-> 53275878, l |-> 0]
PP4 == [s |-> 1, e |-> 940, h |-> 56434632, l |-> 65220311]
\* pi / 2 in two pieces
HP0 == [s |-> 0, e |-> 1023, h |-> 38305493, l |-> 4467992]
HP1 == [s |-> 0, e |-> 969, h |-> 6916492, l |-> 51665927]

\* sin(k/128) and cos(k/128), each as a double and its correction:
\* << sn, ssn, cs, ccs >> for k = 0 .. 109, a double written << s, e, h, l >>
SinCosTable ==
    <<
       << << 0, 0, 0, 0 >>, << 0, 0, 0, 0 >>, << 0, 1023, 0, 0 >>, << 0, 0, 0, 0 >> >>,
       << << 0, 1015, 67107498, 45018863 >>, << 1, 961, 59865275, 6797180 >>, << 0, 1022, 67104768, 1398098 >>, << 0, 968, 64127080, 1666478 >> >>,
       << << 0, 1016, 67103402, 49213141 >>, << 1, 960, 11196646, 43976567 >>, << 0, 1022, 67092480, 22369439 >>, << 0, 968, 10652200, 3825395 >> >>,
       << << 0, 1017, 33545216, 16986709 >>, << 0, 959, 62884564, 22180662 >>, << 0, 1022, 67072001, 46135270 >>, << 0, 968, 45725370, 6911933 >> >>,
       << << 0, 1017, 67087019, 49211503 >>, << 1, 963, 53805502, 52579042 >>, << 0, 1022, 67043333, 22357971 >>, << 1, 968, 15552804, 47749979 >> >>,
       << << 0, 1018, 16755884, 19744213 >>, << 0, 963, 20649224, 4004881 >>, << 0, 1022, 67006477, 1353658 >>, << 0, 966, 40140079, 40655295 >> >>,
       << << 0, 1018, 33517572, 3341225 >>, << 1, 964, 23490429, 7248250 >>, << 0, 1022, 66961434, 66976159 >>, << 1, 967, 36498776, 6589791 >> >>,
       << << 0, 1018, 50273118, 5795244 >>, << 0, 961, 37306176, 64746038 >>, << 0, 1022, 66908210, 1063473 >>, << 0, 967, 18963311, 31198822 >> >>,
       << << 0, 1018, 67021499, 49106651 >>, << 1, 964, 11819852, 40389481 >>, << 0, 1022, 66846805, 21624019 >>, << 0, 968, 13241886, 60375663 >> >>,
       << << 0, 1019, 8326415, 25201647 >>, << 1, 965, 63917241, 49528399 >>, << 0, 1022, 66777224, 44625823 >>, << 0, 965, 31773261, 16075895 >> >>,
       << << 0, 1019, 16691908, 47281499 >>, << 1, 965, 38298708, 43599500 >>, << 0, 1022, 66699472, 19525487 >>, << 1, 966, 53465293, 63532951 >> >>,
       << << 0, 1019, 25052287, 17872695 >>, << 1, 965, 398272, 46043394 >>, << 0, 1022, 66613552, 63468523 >>, << 1, 963, 23753281, 24922626 >> >>,
       << << 0, 1019, 33407040, 52777188 >>, << 0, 963, 46074694, 20506 >>, << 0, 1022, 66519471, 58616731 >>, << 0, 968, 12992685, 20314331 >> >>,
       << << 0, 1019, 41755659, 22401529 >>, << 0, 965, 10115935, 44834241 >>, << 0, 1022, 66417234, 54779904 >>, << 1, 966, 12180018, 55546617 >> >>,
       << << 0, 1019, 50097633, 23607581 >>, << 0, 965, 61104391, 32132296 >>, << 0, 1022, 66306848, 956849 >>, << 0, 966, 61404641, 47285932 >> >>,
       << << 0, 1019, 58432453, 46255334 >>, << 1, 964, 21226379, 62330483 >>, << 0, 1022, 66188318, 13745288 >>, << 0, 968, 1930385, 8238725 >> >>,
       << << 0, 1019, 66759611, 42397238 >>, << 1, 964, 46083247, 13037627 >>, << 0, 1022, 66061652, 41769939 >>, << 0, 968, 47856852, 9760696 >> >>,
       << << 0, 1020, 3984867, 31289809 >>, << 0, 966, 56695324, 38735774 >>, << 0, 1022, 65926858, 66979477 >>, << 0, 968, 8874877, 16145073 >> >>,
       << << 0, 1020, 8140021, 61853359 >>, << 1, 966, 29091138, 26700197 >>, << 0, 1022, 65783945, 37506003 >>, << 1, 965, 21672836, 54142825 >> >>,
       << << 0, 1020, 12290583, 38451343 >>, << 1, 966, 59982785, 31383640 >>, << 0, 1022, 65632921, 1849074 >>, << 0, 964, 1272251, 18336892 >> >>,
       << << 0, 1020, 16436299, 6121163 >>, << 0, 966, 18831770, 57068433 >>, << 0, 1022, 65473794, 41731112 >>, << 0, 968, 51829441, 37450850 >> >>,
       << << 0, 1020, 20576915, 29749883 >>, << 0, 965, 38958794, 46166780 >>, << 0, 1022, 65306576, 3624193 >>, << 1, 966, 32772051, 20618828 >> >>,
       << << 0, 1020, 24712179, 60892915 >>, << 1, 966, 29167809, 37718454 >>, << 0, 1022, 65131275, 35581174 >>, << 1, 968, 51987768, 20130582 >> >>,
       << << 0, 1020, 28841840, 5918028 >>, << 1, 957, 13309730, 58837312 >>, << 0, 1022, 64947903, 50322980 >>, << 1, 967, 37574385, 7684273 >> >>,
       << << 0, 1020, 32965643, 62583477 >>, << 0, 964, 23778360, 37525443 >>, << 0, 1022, 64756471, 60739100 >>, << 1, 968, 27668995, 3595444 >> >>,
       << << 0, 1020, 37083339, 49981764 >>, << 1, 966, 8644760, 46905683 >>, << 0, 1022, 64556991, 45624013 >>, << 0, 967, 28050096, 33433772 >> >>,
       << << 0, 1020, 41194676, 13550354 >>, << 0, 965, 40963936, 11604861 >>, << 0, 1022, 64349475, 16738199 >>, << 0, 966, 59671375, 33796565 >> >>,
       << << 0, 1020, 45299402, 24774501 >>, << 1, 965, 39980757, 64409067 >>, << 0, 1022, 64133935, 18758265 >>, << 0, 968, 5209147, 28228439 >> >>,
       << << 0, 1020, 49397267, 47997337 >>, << 0, 966, 40921434, 41618603 >>, << 0, 1022, 63910384, 62116206 >>, << 1, 966, 8818356, 42611860 >> >>,
       << << 0, 1020, 53488022, 8554915 >>, << 1, 966, 35271718, 63470699 >>, << 0, 1022, 63678837, 55836653 >>, << 0, 968, 53545047, 56022403 >> >>,
       << << 0, 1020, 57571415, 62236112 >>, << 1, 966, 13338677, 46952386 >>, << 0, 1022, 63439308, 8807583 >>, << 0, 967, 48562437, 46241867 >> >>,
       << << 0, 1020, 61647199, 59434403 >>, << 1, 966, 3113387, 56044779 >>, << 0, 1022, 63191810, 29722427 >>, << 0, 968, 56892573, 36442755 >> >>,
       << << 0, 1020, 65715125, 15930743 >>, << 1, 966, 5726740, 9319096 >>, << 0, 1022, 62936359, 58584737 >>, << 0, 968, 55510950, 31836925 >> >>,
       << << 0, 1021, 1333039, 56956252 >>, << 1, 967, 40775847, 33394376 >>, << 0, 1022, 62672972, 864038 >>, << 1, 968, 11175618, 14603122 >> >>,
       << << 0, 1021, 3358771, 49505334 >>, << 1, 967, 41861763, 9691829 >>, << 0, 1022, 62401662, 62976284 >>, << 1, 964, 50284768, 12305329 >> >>,
       << << 0, 1021, 5380202, 43310571 >>, << 1, 966, 49946733, 28710308 >>, << 0, 1022, 62122449, 14020513 >>, << 1, 965, 22758034, 49627600 >> >>,
       << << 0, 1021, 7397209, 13023350 >>, << 0, 967, 18357695, 34459637 >>, << 0, 1022, 61835347, 58126248 >>, << 1, 968, 780228, 45765694 >> >>,
       << << 0, 1021, 9409668, 18526006 >>, << 1, 967, 20717580, 55508760 >>, << 0, 1022, 61540376, 29077327 >>, << 0, 966, 11564367, 43279757 >> >>,
       << << 0, 1021, 11417457, 4109471 >>, << 0, 966, 5590566, 32692231 >>, << 0, 1022, 61237552, 61328771 >>, << 1, 968, 9016006, 63257832 >> >>,
       << << 0, 1021, 13420453, 302983 >>, << 0, 967, 58928557, 798764 >>, << 0, 1022, 60926895, 53062125 >>, << 0, 968, 38690495, 29055143 >> >>,
       << << 0, 1021, 15418533, 57267160 >>, << 0, 960, 1004865, 8881048 >>, << 0, 1022, 60608424, 1654080 >>, << 1, 968, 26256077, 21417491 >> >>,
       << << 0, 1021, 17411577, 43968151 >>, << 1, 967, 63074773, 50709919 >>, << 0, 1022, 60282157, 3598800 >>, << 0, 968, 33211380, 3131580 >> >>,
       << << 0, 1021, 19399462, 51330336 >>, << 0, 967, 34139802, 61902509 >>, << 0, 1022, 59948114, 53101724 >>, << 1, 968, 27469835, 42625075 >> >>,
       << << 0, 1021, 21382067, 57190266 >>, << 0, 967, 47012949, 32436467 >>, << 0, 1022, 59606317, 41997989 >>, << 1, 967, 10347754, 33641015 >> >>,
       << << 0, 1021, 23359271, 61011351 >>, << 0, 966, 32625387, 4186315 >>, << 0, 1022, 59256786, 28104385 >>, << 1, 965, 26749873, 66020204 >> >>,
       << << 0, 1021, 25330954, 17270645 >>, << 0, 965, 46659074, 61378867 >>, << 0, 1022, 58899542, 33807310 >>, << 0, 965, 66730432, 41360102 >> >>,
       << << 0, 1021, 27296994, 37279735 >>, << 1, 967, 56763520, 38029997 >>, << 0, 1022, 58534607, 45975390 >>, << 1, 968, 59466399, 40318660 >> >>,
       << << 0, 1021, 29257272, 54133333 >>, << 0, 967, 17494099, 48880141 >>, << 0, 1022, 58162004, 15870166 >>, << 1, 966, 60830261, 2859711 >> >>,
       << << 0, 1021, 31211669, 24527380 >>, << 1, 966, 29013452, 21739214 >>, << 0, 1022, 57781754, 60381458 >>, << 0, 965, 19716381, 57527605 >> >>,
       << << 0, 1021, 33160064, 63466830 >>, << 1, 967, 47771446, 46095090 >>, << 0, 1022, 57393882, 59281027 >>, << 0, 968, 42542986, 56515818 >> >>,
       << << 0, 1021, 35102340, 42101065 >>, << 0, 967, 36242342, 56601824 >>, << 0, 1022, 56998411, 57780700 >>, << 0, 968, 66946805, 30540701 >> >>,
       << << 0, 1021, 37038377, 57973039 >>, << 0, 967, 17989818, 41313062 >>, << 0, 1022, 56595365, 65108810 >>, << 1, 966, 15588365, 19656084 >> >>,
       << << 0, 1021, 38968058, 32851653 >>, << 1, 967, 27736143, 40386392 >>, << 0, 1022, 56184769, 54411328 >>, << 1, 968, 30969232, 55307319 >> >>,
       << << 0, 1021, 40891264, 48760080 >>, << 0, 967, 2592360, 52474020 >>, << 0, 1022, 55766648, 29759968 >>, << 0, 968, 63778525, 59084641 >> >>,
       << << 0, 1021, 42807879, 12913866 >>, << 1, 965, 42746766, 55627469 >>, << 0, 1022, 55341027, 26049542 >>, << 0, 967, 60307276, 9030621 >> >>,
       << << 0, 1021, 44717784, 60854903 >>, << 1, 966, 25841580, 20710273 >>, << 0, 1022, 54907932, 41784560 >>, << 0, 968, 3492551, 46245006 >> >>,
       << << 0, 1021, 46620865, 20059671 >>, << 1, 967, 45650098, 60421401 >>, << 0, 1022, 54467390, 38972831 >>, << 0, 968, 36531540, 9382413 >> >>,
       << << 0, 1021, 48517004, 14396483 >>, << 1, 967, 59648843, 57425905 >>, << 0, 1022, 54019428, 10126053 >>, << 0, 968, 8146542, 53547162 >> >>,
       << << 0, 1021, 50406085, 61948067 >>, << 0, 966, 6814109, 25075623 >>, << 0, 1022, 53564072, 45258542 >>, << 0, 966, 20678026, 61356696 >> >>,
       << << 0, 1021, 52287995, 8376734 >>, << 1, 965, 61625158, 37574694 >>, << 0, 1022, 53101351, 63339787 >>, << 1, 966, 18522194, 6173794 >> >>,
       << << 0, 1021, 54162616, 64267551 >>, << 1, 966, 12526212, 47899288 >>, << 0, 1022, 52631294, 13507204 >>, << 0, 967, 44889192, 22610211 >> >>,
       << << 0, 1021, 56029837, 292449 >>, << 0, 967, 10653993, 56607388 >>, << 0, 1022, 52153928, 9168187 >>, << 1, 968, 30439166, 61528898 >> >>,
       << << 0, 1021, 57889541, 20094106 >>, << 0, 967, 3486136, 24247706 >>, << 0, 1022, 51669282, 59447134 >>, << 1, 966, 7269646, 60467328 >> >>,
       << << 0, 1021, 59741616, 22555241 >>, << 1, 965, 2695300, 10090639 >>, << 0, 1022, 51177388, 1957249 >>, << 1, 968, 53132667, 42124736 >> >>,
       << << 0, 1021, 61585949, 4916720 >>, << 1, 965, 31616271, 10158717 >>, << 0, 1022, 50678273, 39550288 >>, << 1, 968, 35947588, 51570728 >> >>,
       << << 0, 1021, 63422426, 63240571 >>, << 0, 967, 6063294, 10965596 >>, << 0, 1022, 50171970, 1996086 >>, << 0, 968, 48166341, 36219297 >> >>,
       << << 0, 1021, 65250937, 57326743 >>, << 0, 965, 41309227, 53280931 >>, << 0, 1022, 49658508, 16946421 >>, << 0, 967, 13037362, 9179293 >> >>,
       << << 0, 1021, 67071370, 13825402 >>, << 0, 966, 64136779, 43015018 >>, << 0, 1022, 49137919, 40046386 >>, << 0, 967, 30078097, 19728953 >> >>,
       << << 0, 1022, 887374, 29792597 >>, << 1, 968, 11940702, 3767041 >>, << 0, 1022, 48610235, 56132622 >>, << 0, 965, 18255665, 59747808 >> >>,
       << << 0, 1022, 1789345, 43282011 >>, << 0, 968, 16608145, 20512539 >>, << 0, 1022, 48075489, 11994306 >>, << 1, 968, 64361008, 35338395 >> >>,
       << << 0, 1022, 2687111, 43913217 >>, << 1, 968, 29200616, 20518134 >>, << 0, 1022, 47533712, 17567822 >>, << 0, 965, 37740113, 50493974 >> >>,
       << << 0, 1022, 3580617, 45442862 >>, << 1, 968, 43399100, 12511497 >>, << 0, 1022, 46984938, 10258760 >>, << 0, 968, 61450567, 18836649 >> >>,
       << << 0, 1022, 4469809, 11967547 >>, << 0, 968, 56910438, 8427905 >>, << 0, 1022, 46429200, 23241926 >>, << 0, 967, 7820679, 50053314 >> >>,
       << << 0, 1022, 5354631, 59473794 >>, << 0, 967, 50222295, 36125096 >>, << 0, 1022, 45866532, 51106421 >>, << 1, 967, 65067166, 24407956 >> >>,
       << << 0, 1022, 6235031, 53407152 >>, << 0, 966, 14128580, 3024008 >>, << 0, 1022, 45296969, 49716709 >>, << 0, 968, 37673635, 30848716 >> >>,
       << << 0, 1022, 7110955, 11546589 >>, << 1, 965, 63324956, 13350399 >>, << 0, 1022, 44720546, 3180819 >>, << 1, 960, 48297345, 63787120 >> >>,
       << << 0, 1022, 7982348, 37115724 >>, << 0, 967, 9080809, 15998298 >>, << 0, 1022, 44137296, 57925677 >>, << 0, 966, 40862094, 6211474 >> >>,
       << << 0, 1022, 8849158, 50566351 >>, << 0, 965, 60214418, 52668977 >>, << 0, 1022, 43547257, 52790959 >>, << 0, 968, 23120952, 50152767 >> >>,
       << << 0, 1022, 9711332, 58231739 >>, << 0, 967, 61404169, 5749966 >>, << 0, 1022, 42950464, 55754191 >>, << 1, 968, 27487931, 10589801 >> >>,
       << << 0, 1022, 10568818, 18325607 >>, << 1, 968, 490614, 27356016 >>, << 0, 1022, 42346954, 28238917 >>, << 0, 963, 39291228, 57410392 >> >>,
       << << 0, 1022, 11421562, 42484254 >>, << 1, 968, 65592438, 52521648 >>, << 0, 1022, 41736763, 26292101 >>, << 1, 968, 7634993, 24712710 >> >>,
       << << 0, 1022, 12269513, 60436610 >>, << 0, 968, 55399928, 15197054 >>, << 0, 1022, 41119928, 66215516 >>, << 0, 968, 16671812, 43597666 >> >>,
       << << 0, 1022, 13112620, 21544015 >>, << 0, 968, 64671874, 22680411 >>, << 0, 1022, 40496488, 57304340 >>, << 0, 968, 29930483, 10463145 >> >>,
       << << 0, 1022, 13950830, 29229927 >>, << 0, 966, 46964638, 49299696 >>, << 0, 1022, 39866481, 3019536 >>, << 0, 968, 55049729, 8974477 >> >>,
       << << 0, 1022, 14784093, 5646379 >>, << 1, 967, 4451178, 20645800 >>, << 0, 1022, 39229944, 831997 >>, << 1, 968, 3129192, 35620397 >> >>,
       << << 0, 1022, 15612357, 27427850 >>, << 1, 967, 39687401, 64155771 >>, << 0, 1022, 38586916, 40738450 >>, << 1, 968, 49142784, 56626394 >> >>,
       << << 0, 1022, 16435572, 57464122 >>, << 1, 965, 49896504, 22482880 >>, << 0, 1022, 37937438, 5102327 >>, << 1, 967, 4172866, 45693831 >> >>,
       << << 0, 1022, 17253689, 12216208 >>, << 0, 968, 18359284, 42462453 >>, << 0, 1022, 37281548, 4037329 >>, << 1, 966, 18409773, 20794360 >> >>,
       << << 0, 1022, 18066656, 30357611 >>, << 1, 968, 16472839, 40523013 >>, << 0, 1022, 36619286, 39700736 >>, << 0, 968, 35190799, 43283649 >> >>,
       << << 0, 1022, 18874425, 3216799 >>, << 1, 968, 46551709, 6548752 >>, << 0, 1022, 35950694, 6129439 >>, << 0, 968, 51525233, 1305988 >> >>,
       << << 0, 1022, 19676945, 44742497 >>, << 0, 962, 3572060, 59557274 >>, << 0, 1022, 35275811, 24618694 >>, << 0, 967, 13516792, 46131677 >> >>,
       << << 0, 1022, 20474169, 21943579 >>, << 1, 968, 43142114, 28821354 >>, << 0, 1022, 34594679, 40901792 >>, << 1, 964, 5551064, 10209000 >> >>,
       << << 0, 1022, 21266047, 24851740 >>, << 1, 968, 24132120, 29657137 >>, << 0, 1022, 33907340, 26307933 >>, << 1, 966, 58338882, 58861790 >> >>,
       << << 0, 1022, 22052531, 31176484 >>, << 0, 967, 9220257, 18928529 >>, << 0, 1022, 33213835, 44700808 >>, << 0, 965, 42424681, 10851743 >> >>,
       << << 0, 1022, 22833573, 40720819 >>, << 0, 965, 52498131, 17805720 >>, << 0, 1022, 32514207, 50980175 >>, << 1, 966, 52229557, 53145192 >> >>,
       << << 0, 1022, 23609126, 8469010 >>, << 1, 968, 56670381, 64234107 >>, << 0, 1022, 31808499, 25126211 >>, << 1, 968, 44867002, 30694116 >> >>,
       << << 0, 1022, 24379141, 46108429 >>, << 0, 968, 39529692, 15423370 >>, << 0, 1022, 31096753, 39133471 >>, << 1, 966, 34207091, 59533509 >> >>,
       << << 0, 1022, 25143573, 19570263 >>, << 0, 968, 2995133, 65937591 >>, << 0, 1022, 30379013, 55507873 >>, << 1, 966, 24439695, 26520927 >> >>,
       << << 0, 1022, 25902374, 18984057 >>, << 1, 968, 62350869, 28714010 >>, << 0, 1022, 29655323, 61306488 >>, << 0, 968, 17394729, 16948353 >> >>,
       << << 0, 1022, 26655498, 23324501 >>, << 0, 968, 4832858, 57738556 >>, << 0, 1022, 28925728, 849246 >>, << 0, 968, 25207223, 47960230 >> >>,
       << << 0, 1022, 27402899, 34818863 >>, << 1, 968, 28177629, 38065638 >>, << 0, 1022, 28190270, 43973469 >>, << 0, 967, 5681633, 46986418 >> >>,
       << << 0, 1022, 28144532, 12026394 >>, << 1, 966, 24462691, 57683471 >>, << 0, 1022, 27448996, 48980563 >>, << 1, 968, 40519350, 25557148 >> >>,
       << << 0, 1022, 28880351, 4242913 >>, << 1, 967, 3787361, 25144659 >>, << 0, 1022, 26701951, 32214202 >>, << 1, 965, 39782097, 53705847 >> >>,
       << << 0, 1022, 29610311, 17468480 >>, << 0, 966, 39827342, 8746765 >>, << 0, 1022, 25949180, 33657287 >>, << 0, 966, 56905954, 22501103 >> >>,
       << << 0, 1022, 30334368, 14591352 >>, << 1, 967, 8986817, 47977122 >>, << 0, 1022, 25190729, 49636319 >>, << 0, 968, 18557304, 14955216 >> >>,
       << << 0, 1022, 31052477, 49788196 >>, << 0, 967, 61296613, 11306152 >>, << 0, 1022, 24426645, 32633210 >>, << 0, 968, 806977, 13142315 >> >>,
       << << 0, 1022, 31764596, 269650 >>, << 1, 968, 45072763, 45307115 >>, << 0, 1022, 23656974, 25313399 >>, << 0, 968, 17443465, 56213090 >> >>,
       << << 0, 1022, 32470679, 36221890 >>, << 0, 964, 45368927, 13435795 >>, << 0, 1022, 22881763, 26117106 >>, << 0, 968, 64079147, 52964643 >> >>,
       << << 0, 1022, 33170685, 17004889 >>, << 0, 968, 3915498, 40176716 >>, << 0, 1022, 22101059, 56175781 >>, << 1, 968, 60734009, 46638639 >> >>,
       << << 0, 1022, 33864570, 28199844 >>, << 1, 968, 31507127, 54537690 >>, << 0, 1022, 21314911, 24900570 >>, << 0, 967, 18777120, 7586393 >> >>
    >>

TableDouble(t) == [s |-> t[1], e |-> t[2], h |-> t[3], l |-> t[4]]
Sn(k) == TableDouble(SinCosTable[k + 1][1])
Ssn(k) == TableDouble(SinCosTable[k + 1][2])
Cs(k) == TableDouble(SinCosTable[k + 1][3])
Ccs(k) == TableDouble(SinCosTable[k + 1][4])

\* the low 32 bits of the double u
LowWord(u) == (u.h % 64) * T26 + u.l
\* the high 32 bits of the double a, without the sign
HighWord(a) == a.e * Pow2(20) + a.h \div 64

\* TAYLOR_SIN: the sine of x + dx for |x| < 0.126
PolyTaylor(xx) == FFma(xx, FFma(xx, FFma(xx, FFma(xx, PS5, PS4), PS3), PS2), PS1)
TaylorSin(x, dx, xx) ==
    FAdd(x, FFma(xx, FFma(PolyTaylor(xx), x, FNeg(FMul(dx, CS2))), dx))

\* do_sin: the sine of x + dx
DoSinCor(x, k, s, c) ==
    FCopySign(FAdd(Sn(k), FFma(s, Cs(k), FFma(FNeg(c), Sn(k), FFma(s, Ccs(k), Ssn(k))))), x)
DoSinPoly(x, dx, k, x1, xx) ==
    DoSinCor(x, k, FAdd(x1, FFma(FMul(x1, xx), FFma(xx, SN5, SN3), dx)),
             FFma(x1, dx, FMul(xx, FFma(xx, FFma(xx, CS6, CS4), CS2))))
DoSinNear(x, dx, k, x1) == DoSinPoly(x, dx, k, x1, FMul(x1, x1))
DoSinFrom(x, dx, u) == DoSinNear(x, dx, LowWord(u), FSub(FAbs(x), FSub(u, Big)))
DoSin(x, dx) ==
    IF FLt(FAbs(x), TaylorBound) THEN TaylorSin(x, dx, FMul(x, x))
    ELSE DoSinFrom(x, IF x.e = 0 \/ x.s = 1 THEN FNeg(dx) ELSE dx, FAdd(Big, FAbs(x)))

\* do_cos: the cosine of x + dx
DoCosCor(k, s, c) ==
    FAdd(Cs(k), FFma(FNeg(s), Sn(k), FFma(FNeg(c), Cs(k), FFma(FNeg(s), Ssn(k), Ccs(k)))))
DoCosPoly(k, x1, xx) ==
    DoCosCor(k, FFma(FMul(x1, xx), FFma(xx, SN5, SN3), x1),
             FMul(xx, FFma(xx, FFma(xx, CS6, CS4), CS2)))
DoCosNear(k, x1) == DoCosPoly(k, x1, FMul(x1, x1))
DoCosFrom(x, dx, u) == DoCosNear(LowWord(u), FAdd(FSub(FAbs(x), FSub(u, Big)), dx))
DoCos(x, dx) ==
    DoCosFrom(x, IF x.e # 0 /\ x.s = 1 THEN FNeg(dx) ELSE dx, FAdd(Big, FAbs(x)))

\* do_sincos: the sine of a + da + n * pi / 2
DoSinCosOf(r, n) == IF (n \div 2) % 2 = 1 THEN FNeg(r) ELSE r
DoSinCos(a, da, n) == DoSinCosOf(IF n % 2 = 1 THEN DoCos(a, da) ELSE DoSin(a, da), n)

\* reduce_sincos: the a, da and n with x = n * pi / 2 + a + da, as the
\* arguments (a, da, n + m) of do_sincos
ReduceLow(xn, n, t2, db, b, m) ==
    << b, FAdd(db, FFma(FNeg(xn), PP4, FSub(t2, b))), n + m >>
ReduceMid(xn, n, y, t2, m) ==
    ReduceLow(xn, n, t2, FFma(FNeg(xn), PP3, FSub(y, t2)), FFma(FNeg(xn), PP4, t2), m)
ReduceHigh(xn, n, y, m) == ReduceMid(xn, n, y, FFma(FNeg(xn), PP3, y), m)
ReduceBy(x, xn, n, m) == ReduceHigh(xn, n, FFma(FNeg(xn), MP2, FFma(FNeg(xn), MP1, x)), m)
ReduceFrom(x, t, m) == ReduceBy(x, FSub(t, ToInteger), t.l % 4, m)
ReduceSinCos(x, m) == ReduceFrom(x, FFma(x, HpInv, ToInteger), m)

\* __cos between 0.855469 and 2.426265: the sine of pi / 2 - |x|
CosUpperOf(y, a) == << a, FAdd(FSub(y, a), HP1), 0 >>
CosUpper(y) == CosUpperOf(y, FAdd(y, HP1))
\* __sin between 0.855469 and 2.426265: the cosine of pi / 2 - |x|, with the sign of x
SinUpper(y) == << y, HP1, 1 >>

\* The call of do_sin, do_cos or do_sincos that __sin (m = 0) and __cos (m = 1)
\* make for x, as the arguments (a, da, n) of do_sincos
SinCosCall(x, m) ==
    IF HighWord(x) < 1072390144 THEN << x, FZero, m >>
    ELSE IF HighWord(x) < 1073965309
    THEN (IF m = 0 THEN SinUpper(FSub(HP0, FAbs(x))) ELSE CosUpper(FSub(HP0, FAbs(x))))
    ELSE ReduceSinCos(x, m)
SinCosSign(r, x, m) ==
    IF m = 0 /\ HighWord(x) >= 1072390144 /\ HighWord(x) < 1073965309
    THEN FCopySign(r, x) ELSE r
SinCosAt(t, x, m) == SinCosSign(DoSinCos(t[1], t[2], t[3]), x, m)

\* __sin (m = 0) and __cos (m = 1), |x| < 105414350
FSinCos(x, m) ==
    IF HighWord(x) < (997 - m) * Pow2(20) THEN (IF m = 0 THEN x ELSE FOne)
    ELSE SinCosAt(SinCosCall(x, m), x, m)

\* math.sin and math.cos
FSin(a) == FSinCos(a, 0)
FCos(a) == FSinCos(a, 1)

\* math.pi, the double nearest to pi
Pi == [s |-> 0, e |-> 1024, h |-> 38305493, l |-> 4467992]

\* The float literals of the program
Two == FromInt(2)
Four == FromInt(4)
Eight == FromInt(8)
Tenth == Dec(1, 10)
Fifth == Dec(2, 10)
Half == Dec(5, 10)

----------------------------------------------------------------------------
(* weapon.py: Weapon *)

WeaponTypes == {"knife", "magic_blade", "holy_water", "sacred_flame"}

\* Weapon.update_stats: damage, range and max_cooldown of a type at a level.
\* Any type that is not knife, magic_blade or holy_water takes the last branch.
WeaponStats(type, level) ==
    IF type = "knife" THEN
        [damage |-> 5 + (level - 1) * 2, range |-> 12 + (level - 1) * 2,
         max_cooldown |-> Max(10, 30 - (level - 1) * 2)]
    ELSE IF type = "magic_blade" THEN
        [damage |-> 15 + (level - 1) * 3, range |-> 24 + (level - 1) * 3,
         max_cooldown |-> Max(8, 30 - (level - 1) * 2)]
    ELSE IF type = "holy_water" THEN
        [damage |-> 10 + (level - 1) * 3, range |-> 16 + (level - 1) * 2,
         max_cooldown |-> Max(15, 30 - (level - 1) * 1)]
    ELSE
        [damage |-> 20 + (level - 1) * 4, range |-> 24 + (level - 1) * 2,
         max_cooldown |-> Max(12, 30 - (level - 1) * 1)]

\* Weapon.__init__
NewWeapon(type) ==
    LET s == WeaponStats(type, 1)
    IN  [type |-> type, level |-> 1, cooldown |-> 0,
         damage |-> s.damage, range |-> s.range, max_cooldown |-> s.max_cooldown]

\* Weapon.level_up
WeaponLevelUp(w) ==
    LET s == WeaponStats(w.type, w.level + 1)
    IN  [w EXCEPT !.level = w.level + 1, !.damage = s.damage, !.range = s.range,
                  !.max_cooldown = s.max_cooldown]

\* Weapon.update
WeaponUpdate(w) == IF w.cooldown > 0 THEN [w EXCEPT !.cooldown = w.cooldown - 1] ELSE w

\* Weapon.can_attack answering one tick early, at cooldown 1
CanAttackEarly(w) == w.cooldown <= 1

\* Weapon.can_attack
CanAttack(w) == w.cooldown <= 0

----------------------------------------------------------------------------
(* weapon.py: Attack.  An attack keeps a reference to its weapon: the model  *)
(* keeps the weapon's index in player.weapons (weapons are only appended).   *)

\* Attack.__init__; dir is the player's direction, a unit vector
NewAttack(x, y, widx, wtype, dir) ==
    LET v == IF wtype = "knife" THEN << FMul(dir[1], FromInt(2)), FMul(dir[2], FromInt(2)) >>
             ELSE IF wtype = "magic_blade"
                  THEN << FMul(dir[1], FromInt(3)), FMul(dir[2], FromInt(3)) >>
             ELSE << FZero, FZero >>
        life == IF wtype = "knife" THEN 30
                ELSE IF wtype = "magic_blade" THEN 45
                ELSE IF wtype = "holy_water" THEN 30
                ELSE 90
    IN  [x |-> x, y |-> y, weapon |-> widx, type |-> wtype, lifetime |-> life,
         dx |-> v[1], dy |-> v[2], dot_timer |-> 0]

\* Attack.update: the attack after the call
AttackUpdate(a) ==
    LET b == [a EXCEPT !.lifetime = a.lifetime - 1]
    IN  IF a.type \in {"knife", "magic_blade"} THEN
            [b EXCEPT !.x = FAdd(a.x, a.dx), !.y = FAdd(a.y, a.dy)]
        ELSE IF a.type = "sacred_flame" THEN
            [b EXCEPT !.dot_timer = IF a.dot_timer + 1 >= 15 THEN 0 ELSE a.dot_timer + 1]
        ELSE b

\* Attack.update: its return value, the damage-over-time pulse
AttackPulse(a) == a.type = "sacred_flame" /\ a.dot_timer + 1 >= 15

\* Attack.is_alive with lifetime 0 counted as alive
AttackAliveAtZero(a) == a.lifetime >= 0

\* Attack.is_alive
AttackAlive(a) == a.lifetime > 0

----------------------------------------------------------------------------
(* player.py: PassiveSkill and Player *)

SkillTypes == {"speed_up", "attack_speed", "hp_regen"}

\* PassiveSkill.update_stats: the bonus 0.2 * level or 0.1 * level.  In
\* player.passive_skills level 0 stands for a skill the player does not hold.
SkillBonus(type, level) ==
    IF type = "speed_up" THEN FMul(Fifth, FromInt(level)) ELSE FMul(Tenth, FromInt(level))

\* Player.__init__
NewPlayer(x, y) ==
    [x |-> FromInt(x), y |-> FromInt(y), hp |-> FromInt(100), max_hp |-> FromInt(100),
     base_speed |-> FromInt(2), exp |-> 0, level |-> 1, exp_to_next_level |-> 10,
     weapons |-> << NewWeapon("knife") >>, attacks |-> << >>,
     direction |-> << FOne, FZero >>, last_move_x |-> 0, last_move_y |-> 0,
     passive_skills |-> [s \in SkillTypes |-> 0]]

\* Player.speed
Speed(p) ==
    LET speed == IF p.passive_skills["speed_up"] > 0
                 THEN FAdd(p.base_speed, SkillBonus("speed_up", p.passive_skills["speed_up"]))
                 ELSE p.base_speed
    IN  FMin(speed, Four)

\* Player.add_passive_skill
AddPassiveSkill(p, type) ==
    [p EXCEPT !.passive_skills[type] = p.passive_skills[type] + 1]

\* Player.level_up
LevelUp(p) ==
    [p EXCEPT !.level = p.level + 1,
              !.exp = p.exp - p.exp_to_next_level,
              !.exp_to_next_level = (p.exp_to_next_level * 3) \div 2,
              !.hp = FMin(FromInt(200), FAdd(p.hp, FromInt(10))),
              !.base_speed = FMin(Four, FAdd(p.base_speed, Fifth))]

\* gain_exp with the threshold tested by > instead of >=
GainExpStrict(p, amount) ==
    LET q == [p EXCEPT !.exp = p.exp + amount]
    IN  IF q.exp > q.exp_to_next_level
        THEN [player |-> LevelUp(q), leveled |-> TRUE]
        ELSE [player |-> q, leveled |-> FALSE]

\* gain_exp testing the threshold before the amount is added
GainExpLate(p, amount) ==
    LET q == [p EXCEPT !.exp = p.exp + amount]
    IN  IF p.exp >= p.exp_to_next_level
        THEN [player |-> LevelUp(q), leveled |-> TRUE]
        ELSE [player |-> q, leveled |-> FALSE]

\* Player.gain_exp: the player after the call and the value returned
GainExp(p, amount) ==
    LET q == [p EXCEPT !.exp = p.exp + amount]
    IN  IF q.exp >= q.exp_to_next_level
        THEN [player |-> LevelUp(q), leveled |-> TRUE]
        ELSE [player |-> q, leveled |-> FALSE]

\* add_weapon putting the new weapon in the place of the held ones
AddWeaponReplacing(p, type) == [p EXCEPT !.weapons = << NewWeapon(type) >>]

\* Player.add_weapon
AddWeapon(p, type) == [p EXCEPT !.weapons = Append(p.weapons, NewWeapon(type))]

\* Player.update_direction
UpdateDirection(p, held) ==
    LET dx == (IF "RIGHT" \in held THEN 1 ELSE 0) - (IF "LEFT" \in held THEN 1 ELSE 0)
        dy == (IF "DOWN" \in held THEN 1 ELSE 0) - (IF "UP" \in held THEN 1 ELSE 0)
        length == FSqrt(FromInt(dx * dx + dy * dy))
    IN  IF dx # 0 \/ dy # 0
        THEN [p EXCEPT !.direction = << FDiv(FromInt(dx), length), FDiv(FromInt(dy), length) >>,
                       !.last_move_x = dx, !.last_move_y = dy]
        ELSE p

\* Player.update, the four movement statements in their order
Move(p, held) ==
    LET x1 == IF "LEFT" \in held THEN FMax(FZero, FSub(p.x, Speed(p))) ELSE p.x
        x2 == IF "RIGHT" \in held THEN FMin(FromInt(ScreenWidth - 8), FAdd(x1, Speed(p))) ELSE x1
        y1 == IF "UP" \in held THEN FMax(FZero, FSub(p.y, Speed(p))) ELSE p.y
        y2 == IF "DOWN" \in held THEN FMin(FromInt(ScreenHeight - 8), FAdd(y1, Speed(p))) ELSE y1
    IN  [p EXCEPT !.x = x2, !.y = y2]

\* Player.update, HP regeneration
Regen(p) ==
    IF p.passive_skills["hp_regen"] > 0
    THEN [p EXCEPT !.hp = FMin(p.max_hp, FAdd(p.hp, SkillBonus("hp_regen",
                                                              p.passive_skills["hp_regen"])))]
    ELSE p

\* cooldown_reduction of Player.update: 1.0, or 1.0 - bonus with the skill held
CooldownReduction(as_level) ==
    IF as_level > 0 THEN FSub(FOne, SkillBonus("attack_speed", as_level)) ELSE FOne

\* The cooldown rounded to the nearest frame instead of truncated
CooldownAfterFireRounded(max_cooldown, as_level) ==
    ToInt(FAdd(FMul(FromInt(max_cooldown), CooldownReduction(as_level)), Half))

\* int(weapon.max_cooldown * cooldown_reduction)
CooldownAfterFire(max_cooldown, as_level) ==
    ToInt(FMul(FromInt(max_cooldown), CooldownReduction(as_level)))

\* Player.update, the weapon loop from weapon i on
RECURSIVE UpdateWeapons(_, _)
UpdateWeapons(p, i) ==
    IF i > Len(p.weapons) THEN p
    ELSE LET w == WeaponUpdate(p.weapons[i])
         IN  IF CanAttack(w)
             THEN UpdateWeapons(
                    [p EXCEPT !.attacks = Append(p.attacks, NewAttack(p.x, p.y, i, w.type, p.direction)),
                              !.weapons[i] = [w EXCEPT !.cooldown =
                                    CooldownAfterFire(w.max_cooldown, p.passive_skills["attack_speed"])]],
                    i + 1)
             ELSE UpdateWeapons([p EXCEPT !.weapons[i] = w], i + 1)

\* The weapons that fire in a Player.update of p
Firing(p) == {i \in 1..Len(p.weapons) : CanAttack(WeaponUpdate(p.weapons[i]))}

\* Player.update, the attack list: drop the dead attacks, then update the rest
UpdateAttacks(p) ==
    LET alive == SelectSeq(p.attacks, AttackAlive)
    IN  [p EXCEPT !.attacks = [i \in 1..Len(alive) |-> AttackUpdate(alive[i])]]

\* Player.update
PlayerUpdate(p, held) ==
    UpdateAttacks(UpdateWeapons(Regen(Move(UpdateDirection(p, held), held)), 1))

----------------------------------------------------------------------------
(* enemy.py: Enemy *)

EnemyTypes == {"zombie", "bat", "ghost", "skeleton"}

\* Enemy.ENEMY_STATS
ENEMY_STATS ==
    [type \in EnemyTypes |->
       CASE type = "zombie"   -> [hp |-> 10, speed |-> Dec(5, 10), exp |-> 1, behavior |-> "chase"]
         [] type = "bat"      -> [hp |-> 8, speed |-> FOne, exp |-> 2, behavior |-> "circle",
                                  circle_radius |-> 20, circle_speed |-> Dec(1, 10)]
         [] type = "ghost"    -> [hp |-> 15, speed |-> Dec(3, 10), exp |-> 3,
                                  behavior |-> "teleport", teleport_cooldown |-> 60]
         [] type = "skeleton" -> [hp |-> 12, speed |-> Dec(4, 10), exp |-> 2,
                                  behavior |-> "zigzag", zigzag_width |-> 30,
                                  zigzag_speed |-> Dec(5, 100)]]

EnemyStats(type) == ENEMY_STATS[type]

\* random.random() * math.pi * 2 for the outcome r of random.random()
DrawAngle(r) == FMul(FMul(r, Pi), Two)

\* Outcomes of a teleport's draws, as (random.random(), random.randint(20, 40)):
\* angle 0 at the two ends of the distance range
TeleNear == << FZero, 20 >>
TeleFar == << FZero, 40 >>
\* ... and random() = 0.5, angle pi, distance 20: behind a player facing right
TeleBehind == << Half, 20 >>

\* The circle_angle of a bat in its first n updates, started at the angle a
RECURSIVE CircleAngles(_, _)
CircleAngles(a, n) ==
    IF n = 0 THEN {}
    ELSE {FAdd(a, ENEMY_STATS["bat"].circle_speed)}
         \cup CircleAngles(FAdd(a, ENEMY_STATS["bat"].circle_speed), n - 1)

\* The updates of a bat whose angles are kept in the table: a full turn and more
TableTurns == 70

\* math.cos and math.sin; the values at the angles of the teleport outcomes
\* above and of a bat started at the angle 0 are kept in a table
TableAngles ==
    {DrawAngle(t[1]) : t \in {TeleNear, TeleFar, TeleBehind}}
        \cup CircleAngles(DrawAngle(FZero), TableTurns)
TrigTable == [a \in TableAngles |-> [m \in {0, 1} |-> FSinCos(a, m)]]
Cos(a) == IF a \in TableAngles THEN TrigTable[a][1] ELSE FCos(a)
Sin(a) == IF a \in TableAngles THEN TrigTable[a][0] ELSE FSin(a)

\* Enemy.__init__ at pixel (x, y).  A type outside ENEMY_STATS has no stats row:
\* the lookup raises KeyError and no enemy exists (EnemyStats is undefined there).
\* r is the outcome of the random.random() a bat draws for its circle_angle;
\* the fields of the other behaviours are kept at 0.
NewEnemy(x, y, type, r) ==
    LET s == EnemyStats(type)
    IN  [x |-> FromInt(x), y |-> FromInt(y), type |-> type, hp |-> s.hp, speed |-> s.speed,
         exp |-> s.exp, behavior |-> s.behavior, movement_timer |-> 0, teleport_timer |-> 0,
         circle_angle |-> IF s.behavior = "circle" THEN DrawAngle(r) ELSE FZero,
         zigzag_offset |-> FZero]

\* math.sqrt(dx * dx + dy * dy).  When one of the two is zero the sum is the
\* rounded square of the other, whose correctly rounded root is its magnitude.
Distance(dx, dy) ==
    IF dy.e = 0 THEN FAbs(dx)
    ELSE IF dx.e = 0 THEN FAbs(dy)
    ELSE FSqrt(FAdd(FMul(dx, dx), FMul(dy, dy)))

\* Enemy.update, behavior "circle": a step toward the point of the circle
\* around the target at the advanced angle a
CircleStep(f, px, py, circle_radius, a) ==
    [f EXCEPT !.circle_angle = a,
              !.x = FAdd(f.x, FMul(FSub(FAdd(px, FMul(Cos(a), FromInt(circle_radius))), f.x),
                                   f.speed)),
              !.y = FAdd(f.y, FMul(FSub(FAdd(py, FMul(Sin(a), FromInt(circle_radius))), f.y),
                                   f.speed))]

\* Enemy.update, behavior "teleport" with the cooldown over: to the point
\* at the drawn angle and distance from the target
TeleportStep(f, px, py, angle, teleport_distance) ==
    [f EXCEPT !.x = FAdd(px, FMul(Cos(angle), FromInt(teleport_distance))),
              !.y = FAdd(py, FMul(Sin(angle), FromInt(teleport_distance))),
              !.teleport_timer = 0]

\* Enemy.update, behavior "zigzag": the step (base_dx, base_dy) toward the
\* target and the sway across it at the advanced offset o
ZigzagSway(f, base_dx, base_dy, o, zigzag_amount) ==
    [f EXCEPT !.zigzag_offset = o,
              !.x = FAdd(f.x, FAdd(base_dx, FMul(FNeg(base_dy), zigzag_amount))),
              !.y = FAdd(f.y, FAdd(base_dy, FMul(base_dx, zigzag_amount)))]
ZigzagStep(f, base_dx, base_dy, zigzag_width, o) ==
    ZigzagSway(f, base_dx, base_dy, o, FMul(Sin(o), FromInt(zigzag_width)))

\* Enemy.update toward the target (px, py).  tele is the outcome of the two
\* random draws of a teleport, as (random.random(), teleport_distance).
EnemyUpdate(e, px, py, tele) ==
    LET dx == FSub(px, e.x)
        dy == FSub(py, e.y)
        distance == Distance(dx, dy)
        f  == [e EXCEPT !.movement_timer = e.movement_timer + 1]
        st == EnemyStats(e.type)
    IN  CASE e.behavior = "chase" ->
               IF FLt(FZero, distance)
               THEN [f EXCEPT !.x = FAdd(e.x, FMul(FDiv(dx, distance), e.speed)),
                              !.y = FAdd(e.y, FMul(FDiv(dy, distance), e.speed))]
               ELSE f
          [] e.behavior = "circle" ->
               CircleStep(f, px, py, st.circle_radius, FAdd(e.circle_angle, st.circle_speed))
          [] e.behavior = "teleport" ->
               IF e.teleport_timer + 1 >= st.teleport_cooldown
               THEN TeleportStep(f, px, py, DrawAngle(tele[1]), tele[2])
               ELSE IF FLt(FZero, distance)
               THEN [f EXCEPT !.x = FAdd(e.x, FMul(FMul(FDiv(dx, distance), e.speed), Half)),
                              !.y = FAdd(e.y, FMul(FMul(FDiv(dy, distance), e.speed), Half)),
                              !.teleport_timer = e.teleport_timer + 1]
               ELSE [f EXCEPT !.teleport_timer = e.teleport_timer + 1]
          [] e.behavior = "zigzag" ->
               IF FLt(FZero, distance)
               THEN ZigzagStep(f, FMul(FDiv(dx, distance), e.speed),
                               FMul(FDiv(dy, distance), e.speed), st.zigzag_width,
                               FAdd(e.zigzag_offset, st.zigzag_speed))
               ELSE f

\* Enemy.take_damage
TakeDamage(e, damage) == [e EXCEPT !.hp = e.hp - damage]

\* is_alive with hp 0 still counted as alive
EnemyAliveAtZero(e) == e.hp >= 0

\* Enemy.is_alive
EnemyAlive(e) == e.hp > 0

----------------------------------------------------------------------------
(* music.py: Music *)

MelodyPattern(name) ==
    CASE name = "normal"       -> << 0, 4, 7, 4 >>
      [] name = "knife"        -> << 0, 4, 7, 11 >>
      [] name = "holy_water"   -> << 0, 3, 7, 10 >>
      [] name = "magic_blade"  -> << 0, 4, 8, 11 >>
      [] name = "sacred_flame" -> << 0, 3, 6, 9 >>

RhythmPattern(name) ==
    CASE name = "normal"  -> << 0, 2 >>
      [] name = "intense" -> << 0, 1, 2, 3 >>
      [] name = "boss"    -> << 0, 1, 1, 2, 2, 3 >>

Instrument(type) ==
    CASE type = "zombie" -> 0 [] type = "bat" -> 1 [] type = "ghost" -> 2 [] type = "skeleton" -> 3

\* Music.__init__
NewMusic ==
    [current_bpm |-> 120, current_melody |-> "normal", current_rhythm |-> "normal",
     active_instruments |-> {}, melody_timer |-> 0, rhythm_timer |-> 0, note_index |-> 0]

\* update_music, the tempo: int(base_bpm * (1.0 + player_speed / 2.0 * 0.5))
Bpm(speed) == ToInt(FMul(FromInt(120), FAdd(FOne, FMul(FDiv(speed, Two), Half))))

\* The thresholds taken inclusively: 30 enemies already give boss, 15 intense
RhythmForInclusive(enemy_count) ==
    IF enemy_count >= 30 THEN "boss" ELSE IF enemy_count >= 15 THEN "intense" ELSE "normal"

\* update_music, the rhythm pattern for a number of enemies
RhythmFor(enemy_count) ==
    IF enemy_count > 30 THEN "boss" ELSE IF enemy_count > 15 THEN "intense" ELSE "normal"

\* update_music, the melody for the enemy types present
MelodyFor(types) ==
    IF "ghost" \in types THEN "holy_water"
    ELSE IF "skeleton" \in types THEN "sacred_flame"
    ELSE IF "bat" \in types THEN "magic_blade"
    ELSE IF "zombie" \in types THEN "knife"
    ELSE "normal"

\* update_music, the ambient trigger: the sounds pyxel.play(2, ...) is called with
AmbientPlays(m, minutes) ==
    IF minutes > 0 /\ m.melody_timer % (60 * 2) = 0
    THEN << << 2, (minutes % 3) + 8 >> >>
    ELSE << >>

\* play_music: beat_frames = 30 * 60 / current_bpm
BeatFrames(m) == FDiv(FromInt(30 * 60), FromInt(m.current_bpm))

\* play_music, the melody: the incremented timer >= beat_frames
MelodyDue(m) == FLe(BeatFrames(m), FromInt(m.melody_timer + 1))
\* play_music, the rhythm: the incremented timer >= beat_frames / 2
RhythmDue(m) == FLe(FDiv(BeatFrames(m), Two), FromInt(m.rhythm_timer + 1))

\* play_music: the music after the call and the pyxel.play calls it makes
PlayMusic(m) ==
    LET mel  == MelodyPattern(m.current_melody)
        m1   == IF MelodyDue(m)
                THEN [m EXCEPT !.melody_timer = 0,
                               !.note_index = (m.note_index + 1) % Len(mel)]
                ELSE [m EXCEPT !.melody_timer = m.melody_timer + 1]
        p1   == IF MelodyDue(m) THEN << << 0, mel[m.note_index + 1] >> >> ELSE << >>
        rh   == RhythmPattern(m1.current_rhythm)
        note == rh[(m1.note_index % Len(rh)) + 1] + 5
        m2   == IF RhythmDue(m) THEN [m1 EXCEPT !.rhythm_timer = 0]
                ELSE [m1 EXCEPT !.rhythm_timer = m.rhythm_timer + 1]
        p2   == IF RhythmDue(m)
                THEN [i \in 1..Cardinality(m.active_instruments) |-> << 1, note >>]
                ELSE << >>
    IN  [music |-> m2, plays |-> p1 \o p2]

\* Music.update_music(player_speed, enemy_count, enemy_types, elapsed_minutes):
\* the music after the call and the pyxel.play calls, in order
UpdateMusic(m, speed, enemy_count, types, minutes) ==
    LET m1 == [m EXCEPT !.current_bpm = Bpm(speed),
                        !.current_rhythm = RhythmFor(enemy_count),
                        !.current_melody = MelodyFor(types),
                        !.active_instruments = {Instrument(t) : t \in types \cap EnemyTypes}]
        r  == PlayMusic(m1)
    IN  [music |-> r.music, plays |-> AmbientPlays(m1, minutes) \o r.plays]

----------------------------------------------------------------------------
(* game.py: BaseGame and Game *)

\* The test with strict comparisons: boxes that only touch do not collide
CheckCollisionStrict(x1, y1, w1, h1, x2, y2, w2, h2) ==
    /\ FLt(x1, FAdd(x2, w2)) /\ FLt(x2, FAdd(x1, w1))
    /\ FLt(y1, FAdd(y2, h2)) /\ FLt(y2, FAdd(y1, h1))

\* BaseGame.check_collision (the sizes as doubles too)
CheckCollision(x1, y1, w1, h1, x2, y2, w2, h2) ==
    /\ FLe(x1, FAdd(x2, w2)) /\ FLe(x2, FAdd(x1, w1))
    /\ FLe(y1, FAdd(y2, h2)) /\ FLe(y2, FAdd(y1, h1))

HasWeapon(p, type) == \E i \in 1..Len(p.weapons) : p.weapons[i].type = type

\* The candidates with speed_up appended before hp_up
LevelUpCandidatesSpeedFirst(p) ==
    << "knife_level_up" >>
    \o (IF ~HasWeapon(p, "holy_water") THEN << "holy_water_add" >> ELSE << "holy_water_level_up" >>)
    \o (IF FLt(Speed(p), Four) THEN << "speed_up" >> ELSE << >>)
    \o (IF FLt(p.hp, FromInt(200)) THEN << "hp_up" >> ELSE << >>)
    \o (IF p.passive_skills["attack_speed"] < 5 THEN << "attack_speed" >> ELSE << >>)
    \o (IF p.passive_skills["hp_regen"] < 5 THEN << "hp_regen" >> ELSE << >>)

\* BaseGame.get_level_up_options, the candidates in the order they are appended
LevelUpCandidates(p) ==
    << "knife_level_up" >>
    \o (IF ~HasWeapon(p, "holy_water") THEN << "holy_water_add" >> ELSE << "holy_water_level_up" >>)
    \o (IF FLt(p.hp, FromInt(200)) THEN << "hp_up" >> ELSE << >>)
    \o (IF FLt(Speed(p), Four) THEN << "speed_up" >> ELSE << >>)
    \o (IF p.passive_skills["attack_speed"] < 5 THEN << "attack_speed" >> ELSE << >>)
    \o (IF p.passive_skills["hp_regen"] < 5 THEN << "hp_regen" >> ELSE << >>)

\* The candidate list returned without the [:3] slice
GetLevelUpOptionsUncut(p) == LevelUpCandidates(p)

\* BaseGame.get_level_up_options: options[:3]
GetLevelUpOptions(p) ==
    LET c == LevelUpCandidates(p) IN SubSeq(c, 1, Min(3, Len(c)))

\* The first weapon of a type levelled up (for weapon in weapons: if type: level_up; break)
LevelUpFirst(p, type) ==
    IF HasWeapon(p, type)
    THEN LET i == CHOOSE k \in 1..Len(p.weapons) :
                     /\ p.weapons[k].type = type
                     /\ \A j \in 1..(k - 1) : p.weapons[j].type # type
         IN  [p EXCEPT !.weapons[i] = WeaponLevelUp(p.weapons[i])]
    ELSE p

\* BaseGame.apply_level_up_option
ApplyLevelUpOption(p, option) ==
    CASE option = "knife_level_up"      -> LevelUpFirst(p, "knife")
      [] option = "holy_water_add"      -> AddWeapon(p, "holy_water")
      [] option = "holy_water_level_up" -> LevelUpFirst(p, "holy_water")
      [] option = "hp_up"               -> [p EXCEPT !.hp = FMin(FromInt(200), FAdd(p.hp, FromInt(50)))]
      [] option = "speed_up"            -> AddPassiveSkill(p, "speed_up")
      [] option = "attack_speed"        -> AddPassiveSkill(p, "attack_speed")
      [] option = "hp_regen"            -> AddPassiveSkill(p, "hp_regen")
      [] OTHER                          -> p

\* The spawn step with the timer tested by > 30 instead of >= 30
SpawnStepLate(timer, es, sp) ==
    IF timer + 1 > 30
    THEN [timer |-> 0, enemies |-> Append(es, NewEnemy(sp[1], sp[2], sp[3], sp[4])), spawned |-> TRUE]
    ELSE [timer |-> timer + 1, enemies |-> es, spawned |-> FALSE]

\* Game.update, "enemy spawn": the timer and the enemy list after the step;
\* sp is the outcome of spawn_enemy's random draws as << x, y, type >>.
SpawnStep(timer, es, sp) ==
    IF timer + 1 >= 30
    THEN [timer |-> 0, enemies |-> Append(es, NewEnemy(sp[1], sp[2], sp[3], sp[4])), spawned |-> TRUE]
    ELSE [timer |-> timer + 1, enemies |-> es, spawned |-> FALSE]

\* Game.update, "enemy update and collision": every enemy updated against the
\* player; tele[i] is the outcome of the teleport draws enemy i makes in its update
MoveEnemies(es, p, tele) == [i \in 1..Len(es) |-> EnemyUpdate(es[i], p.x, p.y, tele[i])]

\* ... and the enemies that then touch the player (each costs 1 hp)
Touching(es, p) ==
    {i \in 1..Len(es) :
        CheckCollision(p.x, p.y, Eight, Eight, es[i].x, es[i].y, Eight, Eight)}

\* Game.update, "attack and enemy collision": does attack a of player p hit enemy e
Hits(p, a, e) ==
    LET range == FromInt(p.weapons[a.weapon].range)
    IN  CheckCollision(a.x, a.y, range, range, e.x, e.y, Eight, Eight)

\* the damage enemy e takes from attacks k.. of the active-attack list
RECURSIVE DamageFrom(_, _, _)
DamageFrom(p, e, k) ==
    IF k > Len(p.attacks) THEN 0
    ELSE (IF Hits(p, p.attacks[k], e) THEN p.weapons[p.attacks[k].weapon].damage ELSE 0)
         + DamageFrom(p, e, k + 1)

DamageEnemies(es, p) == [i \in 1..Len(es) |-> TakeDamage(es[i], DamageFrom(p, es[i], 1))]

\* ... and the sacred_flame attacks (by position in the active-attack list) whose
\* weapon's damage some enemy takes in this loop
FlameHits(es, p) ==
    {k \in 1..Len(p.attacks) :
        /\ p.attacks[k].type = "sacred_flame"
        /\ \E i \in 1..Len(es) : Hits(p, p.attacks[k], es[i])}

\* The loop awarding the score twice for every dead enemy
RECURSIVE ResolveDeathsScoreTwice(_, _, _)
ResolveDeathsScoreTwice(es, i, g) ==
    IF i > Len(es) THEN g
    ELSE IF EnemyAlive(es[i])
         THEN ResolveDeathsScoreTwice(es, i + 1, [g EXCEPT !.enemies = Append(g.enemies, es[i])])
         ELSE LET r   == GainExp(g.player, es[i].exp)
                  g1  == [g EXCEPT !.player = r.player,
                                   !.score = g.score + 2 * es[i].exp,
                                   !.removed = Append(g.removed, es[i]),
                                   !.leveled = g.leveled + (IF r.leveled THEN 1 ELSE 0)]
              IN  ResolveDeathsScoreTwice(es, i + 1,
                     IF r.leveled THEN [g1 EXCEPT !.pending = TRUE,
                                                  !.options = GetLevelUpOptions(r.player),
                                                  !.selected = 0]
                     ELSE g1)

\* Game.update, "dead enemies": the loop over enemies[:] from position i on.
\* g carries the player, the score, the pending choice and the surviving enemies.
RECURSIVE ResolveDeaths(_, _, _)
ResolveDeaths(es, i, g) ==
    IF i > Len(es) THEN g
    ELSE IF EnemyAlive(es[i])
         THEN ResolveDeaths(es, i + 1, [g EXCEPT !.enemies = Append(g.enemies, es[i])])
         ELSE LET r   == GainExp(g.player, es[i].exp)
                  g1  == [g EXCEPT !.player = r.player,
                                   !.score = g.score + es[i].exp,
                                   !.removed = Append(g.removed, es[i]),
                                   !.leveled = g.leveled + (IF r.leveled THEN 1 ELSE 0)]
              IN  ResolveDeaths(es, i + 1,
                     IF r.leveled THEN [g1 EXCEPT !.pending = TRUE,
                                                  !.options = GetLevelUpOptions(r.player),
                                                  !.selected = 0]
                     ELSE g1)

\* player.hp -= 1, n times
RECURSIVE LoseHp(_, _)
LoseHp(p, n) == IF n = 0 THEN p ELSE LoseHp([p EXCEPT !.hp = FSub(p.hp, FOne)], n - 1)

\* BaseGame.update: the frame and minute counters
FrameStep(frames, minutes) ==
    [frames |-> frames + 1,
     minutes |-> IF (frames + 1) % (60 * 60) = 0 THEN minutes + 1 ELSE minutes]

EnemyTypesOf(es) == {es[i].type : i \in 1..Len(es)}

----------------------------------------------------------------------------
(* Inputs *)

\* The keys pyxel.btnp reports in a tick of the level-up screen
ModalPressed == {{}, {"UP"}, {"DOWN"}, {"SPACE"}, {"UP", "SPACE"}, {"DOWN", "SPACE"}, {"UP", "DOWN"}}

\* The movement keys pyxel.btn reports in a Running tick
MoveHeld == {{}, {"LEFT"}, {"RIGHT"}}

\* Outcomes of spawn_enemy's draws: side, coordinate along the side, kind, and
\* the random.random() a bat draws in Enemy.__init__ (0 for the other kinds)
ZombieLeft == << -8, 60, "zombie", FZero >>
ZombieRight == << 160, 60, "zombie", FZero >>
GhostRight == << 160, 60, "ghost", FZero >>
BatRight == << 160, 60, "bat", FZero >>
NoSpawn == << 0, 0, "none", FZero >>

NoLast ==
    [tick |-> "init", pressed |-> {}, held |-> {}, applied |-> "", fired |-> {},
     spawned |-> FALSE, removed |-> << >>, leveled |-> 0, touched |-> 0, plays |-> << >>,
     flamed |-> {}]

----------------------------------------------------------------------------
(* The game: Game.__init__ and Game.update *)

\* BaseGame.__init__, all but the player
GameAtStart ==
    /\ running = TRUE
    /\ enemies = << >>
    /\ enemy_spawn_timer = 0
    /\ score = 0
    /\ level_up_pending = FALSE
    /\ level_up_options = << >>
    /\ selected_option = 0
    /\ elapsed_frames = 0
    /\ elapsed_minutes = 0
    /\ music = NewMusic
    /\ last = NoLast
    /\ probe = << >>

Init ==
    /\ GameAtStart
    /\ player = NewPlayer(ScreenWidth \div 2, ScreenHeight \div 2)

\* Game.update when ESC was pressed: pyxel.quit() and return
Quit ==
    /\ running
    /\ running' = FALSE
    /\ last' = [NoLast EXCEPT !.tick = "quit", !.pressed = {"ESC"}]
    /\ UNCHANGED << player, enemies, enemy_spawn_timer, score, level_up_pending,
                    level_up_options, selected_option, elapsed_frames, elapsed_minutes,
                    music, probe >>

\* The chain with the confirm key tested first
ChooseBranchConfirmFirst(pressed) ==
    IF "SPACE" \in pressed THEN "confirm"
    ELSE IF "UP" \in pressed THEN "up"
    ELSE IF "DOWN" \in pressed THEN "down"
    ELSE "none"

\* Game.update while a level-up choice is pending: which branch of the
\* if / elif chain over btnp(UP), btnp(DOWN), btnp(SPACE) runs
ChooseBranch(pressed) ==
    IF "UP" \in pressed THEN "up"
    ELSE IF "DOWN" \in pressed THEN "down"
    ELSE IF "SPACE" \in pressed THEN "confirm"
    ELSE "none"

\* A level-up tick whose weapons keep cooling down (the early return is missing
\* for the weapon loop)
ChooseStepTicking(pressed) ==
    /\ running
    /\ level_up_pending
    /\ "ESC" \notin pressed
    /\ player' = [player EXCEPT !.weapons =
                     [i \in 1..Len(player.weapons) |-> WeaponUpdate(player.weapons[i])]]
    /\ last' = [NoLast EXCEPT !.tick = "choose", !.pressed = pressed]
    /\ UNCHANGED << running, enemies, enemy_spawn_timer, score, elapsed_frames,
                    elapsed_minutes, music, probe, level_up_pending, level_up_options,
                    selected_option >>

\* A level-up tick whose selection stops at the ends of the list instead of wrapping
ChooseStepClamped(pressed) ==
    /\ running
    /\ level_up_pending
    /\ "ESC" \notin pressed
    /\ \E br \in {ChooseBranch(pressed)} :
         /\ CASE br = "up" ->
                   /\ selected_option' = Max(selected_option - 1, 0)
                   /\ UNCHANGED << player, level_up_pending, level_up_options >>
              [] br = "down" ->
                   /\ selected_option' = Min(selected_option + 1, Len(level_up_options) - 1)
                   /\ UNCHANGED << player, level_up_pending, level_up_options >>
              [] br = "confirm" ->
                   /\ player' = ApplyLevelUpOption(player, level_up_options[selected_option + 1])
                   /\ level_up_pending' = FALSE
                   /\ level_up_options' = << >>
                   /\ selected_option' = 0
              [] br = "none" ->
                   UNCHANGED << player, level_up_pending, level_up_options, selected_option >>
         /\ last' = [NoLast EXCEPT !.tick = "choose", !.pressed = pressed,
                                   !.applied = IF br = "confirm"
                                               THEN level_up_options[selected_option + 1]
                                               ELSE ""]
    /\ UNCHANGED << running, enemies, enemy_spawn_timer, score, elapsed_frames,
                    elapsed_minutes, music, probe >>

\* Game.update while a level-up choice is pending
ChooseStep(pressed) ==
    /\ running
    /\ level_up_pending
    /\ "ESC" \notin pressed
    /\ \E br \in {ChooseBranch(pressed)} :
         /\ CASE br = "up" ->
                   /\ selected_option' = (selected_option - 1) % Len(level_up_options)
                   /\ UNCHANGED << player, level_up_pending, level_up_options >>
              [] br = "down" ->
                   /\ selected_option' = (selected_option + 1) % Len(level_up_options)
                   /\ UNCHANGED << player, level_up_pending, level_up_options >>
              [] br = "confirm" ->
                   /\ player' = ApplyLevelUpOption(player, level_up_options[selected_option + 1])
                   /\ level_up_pending' = FALSE
                   /\ level_up_options' = << >>
                   /\ selected_option' = 0
              [] br = "none" ->
                   UNCHANGED << player, level_up_pending, level_up_options, selected_option >>
         /\ last' = [NoLast EXCEPT !.tick = "choose", !.pressed = pressed,
                                   !.applied = IF br = "confirm"
                                               THEN level_up_options[selected_option + 1]
                                               ELSE ""]
    /\ UNCHANGED << running, enemies, enemy_spawn_timer, score, elapsed_frames,
                    elapsed_minutes, music, probe >>

\* Game.update in a Running tick, with the movement keys held, the outcome sp
\* of the spawn draws and the outcomes tele of the teleport draws, one per enemy
RunStep(held, sp, tele) ==
    /\ running
    /\ ~level_up_pending
    /\ \E p1 \in {PlayerUpdate(player, held)} :
       \E s \in {SpawnStep(enemy_spawn_timer, enemies, sp)} :
       \E es1 \in {MoveEnemies(s.enemies, p1, tele)} :
       \E hit \in {Cardinality(Touching(es1, p1))} :
       \E p2 \in {LoseHp(p1, hit)} :
       \E es2 \in {DamageEnemies(es1, p2)} :
       \E g \in {ResolveDeaths(es2, 1,
                  [player |-> p2, score |-> score, enemies |-> << >>,
                   pending |-> level_up_pending, options |-> level_up_options,
                   selected |-> selected_option, removed |-> << >>, leveled |-> 0])} :
       \E f \in {FrameStep(elapsed_frames, elapsed_minutes)} :
       \E m \in {UpdateMusic(music, Speed(g.player), Len(g.enemies), EnemyTypesOf(g.enemies),
                           f.minutes)} :
        /\ player' = g.player
        /\ enemies' = g.enemies
        /\ enemy_spawn_timer' = s.timer
        /\ score' = g.score
        /\ level_up_pending' = g.pending
        /\ level_up_options' = g.options
        /\ selected_option' = g.selected
        /\ elapsed_frames' = f.frames
        /\ elapsed_minutes' = f.minutes
        /\ music' = m.music
        /\ last' = [NoLast EXCEPT !.tick = "run", !.held = held, !.fired = Firing(Regen(Move(UpdateDirection(player, held), held))),
                                  !.spawned = s.spawned, !.removed = g.removed,
                                  !.leveled = g.leveled, !.touched = hit, !.plays = m.plays,
                                  !.flamed = FlameHits(es1, p2)]
        /\ UNCHANGED << running, probe >>

\* Does the update of enemy e reach the teleport (and make its two draws)
Teleports(e) ==
    e.behavior = "teleport" /\ e.teleport_timer + 1 >= EnemyStats(e.type).teleport_cooldown

\* The outcomes of the teleport draws of one tick, one for each enemy from
\* position i on, each teleporting enemy drawing its own from teles; the last
\* entry is for an enemy spawned in the tick, which does not teleport
RECURSIVE TeleportDraws(_, _, _)
TeleportDraws(es, i, teles) ==
    IF i > Len(es) THEN {<< TeleNear >>}
    ELSE {<< o >> \o r : o \in (IF Teleports(es[i]) THEN teles ELSE {TeleNear}),
                         r \in TeleportDraws(es, i + 1, teles)}

\* A Running tick with its inputs drawn from the given sets (draws: the
\* outcomes of the teleport draws, one sequence per choice), up to frame
\* maxFrames; movement keys are held in the first moveFrames frames only
RunTick(spawns, draws, maxFrames, moveFrames) ==
    /\ elapsed_frames < maxFrames
    /\ \E held \in (IF elapsed_frames < moveFrames THEN MoveHeld ELSE {{}}) :
       \E sp \in (IF enemy_spawn_timer + 1 >= 30 THEN spawns ELSE {NoSpawn}) :
       \E tele \in draws :
          RunStep(held, sp, tele)

ChooseTick == \E pressed \in ModalPressed : ChooseStep(pressed)

MaxFrames == 215
MoveFrames == 1

RunTickMain ==
    RunTick({ZombieLeft, GhostRight}, TeleportDraws(enemies, 1, {TeleNear, TeleFar}),
            MaxFrames, MoveFrames)

Next == Quit \/ ChooseTick \/ RunTickMain

Spec == Init /\ [][Next]_vars

----------------------------------------------------------------------------
(* A siege: the same game with every enemy a zombie entering from the left  *)
(* edge, behind the player's knives, followed for longer.                   *)

SiegeFrames == 500

RunTickSiege == RunTick({ZombieLeft}, TeleportDraws(enemies, 1, {TeleNear}), SiegeFrames, 0)

NextSiege == Quit \/ ChooseTick \/ RunTickSiege

SpecSiege == Init /\ [][NextSiege]_vars

----------------------------------------------------------------------------
(* A haunting: every enemy is a ghost entering from the right edge.  Up to   *)
(* frame HauntFrom every teleport lands behind the player, where nothing    *)
(* reaches a ghost until it teleports again; from then on every ghost that  *)
(* teleports lands, by its own draw, behind the player or in the path of    *)
(* the knives.                                                              *)

HauntFrames == 400
HauntFrom == 350

RunTickHaunt ==
    RunTick({GhostRight},
            TeleportDraws(enemies, 1, IF elapsed_frames < HauntFrom THEN {TeleBehind}
                                      ELSE {TeleNear, TeleBehind}),
            HauntFrames, 0)

NextHaunt == Quit \/ ChooseTick \/ RunTickHaunt

SpecHaunt == Init /\ [][NextHaunt]_vars

----------------------------------------------------------------------------
(* A hunt: enemies of the three exp values (zombie 1, bat 2, ghost 3) enter  *)
(* from the right edge in the path of the knives; every ghost that          *)
(* teleports lands, by its own draw, in that path or behind the player,     *)
(* where ghosts gather until they teleport again.                           *)

HuntFrames == 225

RunTickHunt ==
    RunTick({ZombieRight, BatRight, GhostRight},
            TeleportDraws(enemies, 1, {TeleNear, TeleBehind}), HuntFrames, 0)

NextHunt == Quit \/ ChooseTick \/ RunTickHunt

SpecHunt == Init /\ [][NextHunt]_vars

----------------------------------------------------------------------------
(* A stalking: the same enemies, every teleport landing near or far in the  *)
(* path of the knives, followed for long enough for two level-up choices.   *)

StalkFrames == 285

RunTickStalk ==
    RunTick({ZombieRight, BatRight, GhostRight},
            TeleportDraws(enemies, 1, {TeleNear, TeleFar}), StalkFrames, 0)

NextStalk == Quit \/ ChooseTick \/ RunTickStalk

SpecStalk == Init /\ [][NextStalk]_vars

----------------------------------------------------------------------------
(* The same game played by a player who was handed a sacred flame through   *)
(* Player.add_weapon (no level-up option adds one).                         *)

FlameFrames == 200

InitFlame ==
    /\ GameAtStart
    /\ player = AddWeapon(NewPlayer(ScreenWidth \div 2, ScreenHeight \div 2), "sacred_flame")

RunTickFlame ==
    RunTick({ZombieLeft, GhostRight}, TeleportDraws(enemies, 1, {TeleNear, TeleBehind}),
            FlameFrames, 0)

NextFlame == Quit \/ ChooseTick \/ RunTickFlame

SpecFlame == InitFlame /\ [][NextFlame]_vars

----------------------------------------------------------------------------
(* Unit specifications: one method called directly on states drawn from     *)
(* bounded sets.  The rest of the game stays as constructed.                *)

GameAtRest ==
    /\ running = TRUE
    /\ enemies = << >>
    /\ enemy_spawn_timer = 0
    /\ score = 0
    /\ level_up_pending = FALSE
    /\ level_up_options = << >>
    /\ selected_option = 0
    /\ elapsed_frames = 0

\* base_speed after n level-ups of a new player
RECURSIVE BaseSpeedAfter(_)
BaseSpeedAfter(n) ==
    IF n = 0 THEN FromInt(2) ELSE FMin(Four, FAdd(BaseSpeedAfter(n - 1), Fifth))

\* A player built through the public attributes and methods: hp (whole points),
\* base_speed as left by bs level-ups, the three skill levels, and whether holy
\* water is held
BuiltPlayer(hp, bs, su, as, hr, hw) ==
    [NewPlayer(ScreenWidth \div 2, ScreenHeight \div 2) EXCEPT
        !.hp = FromInt(hp),
        !.base_speed = BaseSpeedAfter(bs),
        !.passive_skills = [s \in SkillTypes |->
                              IF s = "speed_up" THEN su ELSE IF s = "attack_speed" THEN as ELSE hr],
        !.weapons = IF hw THEN << NewWeapon("knife"), NewWeapon("holy_water") >>
                    ELSE << NewWeapon("knife") >>]

(* BaseGame.get_level_up_options and apply_level_up_option *)

OptionPlayers ==
    {BuiltPlayer(hp, bs, su, as, hr, hw) :
        hp \in {1, 100, 199, 200}, bs \in {0, 8, 10}, su \in {0, 1, 2},
        as \in {0, 4, 5}, hr \in {0, 4, 5}, hw \in BOOLEAN}

OptionRounds == 1

InitOptions ==
    /\ GameAtRest
    /\ elapsed_minutes = 0
    /\ music = NewMusic
    /\ last = NoLast
    /\ player \in OptionPlayers
    /\ probe = [op |-> "none", result |-> << >>, rounds |-> 0]

CallGetLevelUpOptions ==
    /\ probe.op = "none"
    /\ probe' = [probe EXCEPT !.op = "get_level_up_options", !.result = GetLevelUpOptions(player)]
    /\ UNCHANGED << running, player, enemies, enemy_spawn_timer, score, level_up_pending,
                    level_up_options, selected_option, elapsed_frames, elapsed_minutes,
                    music, last >>

CallApplyLevelUpOption ==
    /\ probe.op = "get_level_up_options"
    /\ probe.rounds < OptionRounds
    /\ \E k \in 1..Len(probe.result) :
          /\ player' = ApplyLevelUpOption(player, probe.result[k])
          /\ probe' = [op |-> "none", result |-> << >>, rounds |-> probe.rounds + 1]
    /\ UNCHANGED << running, enemies, enemy_spawn_timer, score, level_up_pending,
                    level_up_options, selected_option, elapsed_frames, elapsed_minutes,
                    music, last >>

NextOptions == CallGetLevelUpOptions \/ CallApplyLevelUpOption

SpecOptions == InitOptions /\ [][NextOptions]_vars

(* Player.gain_exp *)

ExpAmounts == {0, 1, 2, 3, 10, 25}
MaxExpLevel == 4

InitExp ==
    /\ GameAtRest
    /\ elapsed_minutes = 0
    /\ music = NewMusic
    /\ last = NoLast
    /\ player = NewPlayer(ScreenWidth \div 2, ScreenHeight \div 2)
    /\ probe = [op |-> "none"]

CallGainExp ==
    /\ player.level < MaxExpLevel
    /\ \E amount \in ExpAmounts :
       \E r \in {GainExp(player, amount)} :
          /\ player' = r.player
          /\ probe' = [op |-> "gain_exp", before |-> player, amount |-> amount,
                       result |-> r.leveled]
    /\ UNCHANGED << running, enemies, enemy_spawn_timer, score, level_up_pending,
                    level_up_options, selected_option, elapsed_frames, elapsed_minutes,
                    music, last >>

NextExp == CallGainExp

SpecExp == InitExp /\ [][NextExp]_vars

(* Player.update on a player with levelled weapons and the AttackSpeed skill *)

MaxKnifeLevel == 12
MaxHolyWaterLevel == 3
MaxSkillLevel == 5
ArsenalTicks == 35

ArsenalPlayers ==
    {[BuiltPlayer(100, 0, 0, as, 0, FALSE) EXCEPT
         !.weapons = << [NewWeapon("knife") EXCEPT
                           !.level = kl,
                           !.damage = WeaponStats("knife", kl).damage,
                           !.range = WeaponStats("knife", kl).range,
                           !.max_cooldown = WeaponStats("knife", kl).max_cooldown] >>
                     \o (IF hl = 0 THEN << >>
                         ELSE << [NewWeapon("holy_water") EXCEPT
                                    !.level = hl,
                                    !.damage = WeaponStats("holy_water", hl).damage,
                                    !.range = WeaponStats("holy_water", hl).range,
                                    !.max_cooldown = WeaponStats("holy_water", hl).max_cooldown] >>)] :
        kl \in 1..MaxKnifeLevel, hl \in 0..MaxHolyWaterLevel, as \in 0..MaxSkillLevel}

\* The keys held through the calls: none, or two at once (a diagonal direction)
ArsenalHeld == {{}, {"RIGHT", "DOWN"}}

InitArsenal ==
    /\ GameAtRest
    /\ elapsed_minutes = 0
    /\ music = NewMusic
    /\ last = NoLast
    /\ player \in ArsenalPlayers
    /\ \E held \in ArsenalHeld : probe = [op |-> "none", calls |-> 0, held |-> held]

CallPlayerUpdate ==
    /\ probe.calls < ArsenalTicks
    /\ player' = PlayerUpdate(player, probe.held)
    /\ last' = [NoLast EXCEPT !.tick = "player", !.fired = Firing(player)]
    /\ probe' = [op |-> "update", calls |-> probe.calls + 1, held |-> probe.held]
    /\ UNCHANGED << running, enemies, enemy_spawn_timer, score, level_up_pending,
                    level_up_options, selected_option, elapsed_frames, elapsed_minutes,
                    music >>

NextArsenal == CallPlayerUpdate

SpecArsenal == InitArsenal /\ [][NextArsenal]_vars

(* Player.update on a player holding the HpRegen skill *)

RegenHps == {1, 50, 99, 100, 101, 150, 199, 200}

RegenPlayers ==
    {BuiltPlayer(hp, 0, 0, 0, hr, FALSE) : hp \in RegenHps, hr \in 0..MaxSkillLevel}

InitRegen ==
    /\ GameAtRest
    /\ elapsed_minutes = 0
    /\ music = NewMusic
    /\ last = NoLast
    /\ player \in RegenPlayers
    /\ probe = [op |-> "none", calls |-> 0, held |-> {}]

NextRegen == CallPlayerUpdate

SpecRegen == InitRegen /\ [][NextRegen]_vars

(* BaseGame.check_collision *)

CollisionSpan == 12

InitCollision ==
    /\ GameAtRest
    /\ elapsed_minutes = 0
    /\ music = NewMusic
    /\ last = NoLast
    /\ player = NewPlayer(ScreenWidth \div 2, ScreenHeight \div 2)
    /\ \E ax \in {0, 1}, aw \in {8, 12}, ah \in {8, 12},
          bx \in (0 - CollisionSpan)..CollisionSpan, by \in (0 - CollisionSpan)..CollisionSpan :
          probe = [op |-> "none", a |-> << ax, 0, aw, ah >>, b |-> << bx, by, 8, 8 >>,
                   result |-> FALSE]

CallCheckCollision ==
    /\ probe.op = "none"
    /\ probe' = [probe EXCEPT !.op = "check_collision",
                    !.result = CheckCollision(FromInt(probe.a[1]), FromInt(probe.a[2]),
                                              FromInt(probe.a[3]), FromInt(probe.a[4]),
                                              FromInt(probe.b[1]), FromInt(probe.b[2]),
                                              FromInt(probe.b[3]), FromInt(probe.b[4]))]
    /\ UNCHANGED << running, player, enemies, enemy_spawn_timer, score, level_up_pending,
                    level_up_options, selected_option, elapsed_frames, elapsed_minutes,
                    music, last >>

NextCollision == CallCheckCollision

SpecCollision == InitCollision /\ [][NextCollision]_vars

(* Music.update_music, called once per tick with the game's aggregates *)

MusicCalls == 130
MusicMinutes == 3

\* player speeds 2.0, 3.0 and 4.0
MusicSpeeds == {FromInt(2), FromInt(3), FromInt(4)}

\* enemy_count and the enemy types present
MusicCrowds ==
    { << 0, {} >>, << 10, {"zombie"} >>, << 16, {"zombie", "ghost"} >>,
      << 31, {"zombie", "bat", "ghost", "skeleton"} >> }

InitMusic ==
    /\ GameAtRest
    /\ music = NewMusic
    /\ last = NoLast
    /\ player = NewPlayer(ScreenWidth \div 2, ScreenHeight \div 2)
    /\ elapsed_minutes \in 0..MusicMinutes
    /\ \E sp \in MusicSpeeds :
          probe = [op |-> "none", speed |-> sp, calls |-> 0, ambient |-> FALSE,
                   since |-> 0, gap |-> 0]

\* One update_music call.  probe.since counts the calls since the latest
\* ambient trigger; probe.gap is, at a trigger, the number of calls since the
\* previous one (0 at the first).
CallUpdateMusic ==
    /\ probe.calls < MusicCalls
    /\ \E crowd \in MusicCrowds :
       \E r \in {UpdateMusic(music, probe.speed, crowd[1], crowd[2], elapsed_minutes)} :
       \E amb \in {\E i \in 1..Len(r.plays) : r.plays[i][1] = 2} :
          /\ music' = r.music
          /\ last' = [NoLast EXCEPT !.tick = "music", !.plays = r.plays]
          /\ probe' = [probe EXCEPT !.op = "update_music",
                          !.calls = probe.calls + 1,
                          !.ambient = amb,
                          !.since = IF amb THEN 0 ELSE probe.since + 1,
                          !.gap = IF amb /\ probe.op # "none" THEN probe.since + 1 ELSE 0]
    /\ UNCHANGED << running, player, enemies, enemy_spawn_timer, score, level_up_pending,
                    level_up_options, selected_option, elapsed_frames, elapsed_minutes >>

NextMusic == CallUpdateMusic

SpecMusic == InitMusic /\ [][NextMusic]_vars

(* Enemy(x, y, kind) and Weapon(kind), called with kinds in and outside the  *)
(* enumerated ones                                                           *)

\* Enemy.__init__ as a call that may raise: ENEMY_STATS[enemy_type] is a dict
\* lookup, a KeyError for a kind that is not a key
EnemyConstruct(x, y, type) ==
    IF type \in EnemyTypes
    THEN [raised |-> FALSE, entity |-> << NewEnemy(x, y, type, FZero) >>]
    ELSE [raised |-> TRUE, entity |-> << >>]

\* Weapon.__init__ as a call that may raise: update_stats ends in a bare else,
\* so every kind gets stats and nothing is raised
WeaponConstruct(type) == [raised |-> FALSE, entity |-> << NewWeapon(type) >>]

ConstructSpan == 9

UnknownKind == "dragon"

InitConstruct ==
    /\ GameAtRest
    /\ elapsed_minutes = 0
    /\ music = NewMusic
    /\ last = NoLast
    /\ player = NewPlayer(ScreenWidth \div 2, ScreenHeight \div 2)
    /\ probe = [op |-> "none", kind |-> "", raised |-> FALSE, entity |-> << >>]

CallEnemy ==
    /\ \E x \in 0..ConstructSpan, y \in 0..ConstructSpan, kind \in EnemyTypes \cup {UnknownKind} :
       \E r \in {EnemyConstruct(x, y, kind)} :
          probe' = [op |-> "Enemy", kind |-> kind, raised |-> r.raised, entity |-> r.entity]
    /\ UNCHANGED << running, player, enemies, enemy_spawn_timer, score, level_up_pending,
                    level_up_options, selected_option, elapsed_frames, elapsed_minutes,
                    music, last >>

CallWeapon ==
    /\ \E kind \in WeaponTypes \cup {UnknownKind} :
       \E r \in {WeaponConstruct(kind)} :
          probe' = [op |-> "Weapon", kind |-> kind, raised |-> r.raised, entity |-> r.entity]
    /\ UNCHANGED << running, player, enemies, enemy_spawn_timer, score, level_up_pending,
                    level_up_options, selected_option, elapsed_frames, elapsed_minutes,
                    music, last >>

NextConstruct == CallEnemy \/ CallWeapon

SpecConstruct == InitConstruct /\ [][NextConstruct]_vars

(* Enemy.update of one zombie against a target that stands still.  The     *)
(* zombie is constructed at any pixel within ChaseSpan of the target, in    *)
(* both directions.                                                         *)

ChaseSpan == 3
ChaseTicks == 8

InitChase ==
    /\ running = TRUE
    /\ enemy_spawn_timer = 0
    /\ score = 0
    /\ level_up_pending = FALSE
    /\ level_up_options = << >>
    /\ selected_option = 0
    /\ elapsed_frames = 0
    /\ elapsed_minutes = 0
    /\ music = NewMusic
    /\ last = NoLast
    /\ player = NewPlayer(ScreenWidth \div 2, ScreenHeight \div 2)
    /\ \E ox \in (0 - ChaseSpan)..ChaseSpan, oy \in (0 - ChaseSpan)..ChaseSpan :
          /\ enemies = << NewEnemy(ScreenWidth \div 2 + ox, ScreenHeight \div 2 + oy,
                                   "zombie", FZero) >>
          /\ probe = [op |-> "none", calls |-> 0, before |-> enemies[1]]

CallEnemyUpdate ==
    /\ probe.calls < ChaseTicks
    /\ enemies' = << EnemyUpdate(enemies[1], player.x, player.y, TeleNear) >>
    /\ probe' = [op |-> "update", calls |-> probe.calls + 1, before |-> enemies[1]]
    /\ UNCHANGED << running, player, enemy_spawn_timer, score, level_up_pending,
                    level_up_options, selected_option, elapsed_frames, elapsed_minutes,
                    music, last >>

NextChase == CallEnemyUpdate

SpecChase == InitChase /\ [][NextChase]_vars

(* Music.update_music called with every enemy count up to RhythmCounts, on  *)
(* a Music whose rhythm an earlier call has set                              *)

RhythmCounts == 35
RhythmCalls == 2

InitRhythm ==
    /\ GameAtRest
    /\ elapsed_minutes = 0
    /\ music = NewMusic
    /\ last = NoLast
    /\ player = NewPlayer(ScreenWidth \div 2, ScreenHeight \div 2)
    /\ probe = [op |-> "none", calls |-> 0, count |-> 0, previous |-> "normal"]

CallUpdateMusicCount ==
    /\ probe.calls < RhythmCalls
    /\ \E count \in 0..RhythmCounts :
       \E r \in {UpdateMusic(music, Speed(player), count,
                             IF count = 0 THEN {} ELSE {"zombie"}, elapsed_minutes)} :
          /\ music' = r.music
          /\ last' = [NoLast EXCEPT !.tick = "music", !.plays = r.plays]
          /\ probe' = [op |-> "update_music", calls |-> probe.calls + 1, count |-> count,
                       previous |-> music.current_rhythm]
    /\ UNCHANGED << running, player, enemies, enemy_spawn_timer, score, level_up_pending,
                    level_up_options, selected_option, elapsed_frames, elapsed_minutes >>

NextRhythm == CallUpdateMusicCount

SpecRhythm == InitRhythm /\ [][NextRhythm]_vars

(* Enemy.take_damage and Enemy.is_alive on one enemy of each kind           *)

DamageAmounts == {0, 1, 4, 5, 7, 20}
DamageCalls == 4

InitDamage ==
    /\ running = TRUE
    /\ enemy_spawn_timer = 0
    /\ score = 0
    /\ level_up_pending = FALSE
    /\ level_up_options = << >>
    /\ selected_option = 0
    /\ elapsed_frames = 0
    /\ elapsed_minutes = 0
    /\ music = NewMusic
    /\ last = NoLast
    /\ player = NewPlayer(ScreenWidth \div 2, ScreenHeight \div 2)
    /\ \E kind \in EnemyTypes : enemies = << NewEnemy(0, 0, kind, FZero) >>
    /\ probe = [op |-> "none", calls |-> 0, total |-> 0, before |-> 0, alive |-> TRUE]

CallTakeDamage ==
    /\ probe.calls < DamageCalls
    /\ \E damage \in DamageAmounts :
       \E e \in {TakeDamage(enemies[1], damage)} :
          /\ enemies' = << e >>
          /\ probe' = [op |-> "take_damage", calls |-> probe.calls + 1,
                       total |-> probe.total + damage, before |-> enemies[1].hp,
                       alive |-> EnemyAlive(e)]
    /\ UNCHANGED << running, player, enemy_spawn_timer, score, level_up_pending,
                    level_up_options, selected_option, elapsed_frames, elapsed_minutes,
                    music, last >>

NextDamage == CallTakeDamage

SpecDamage == InitDamage /\ [][NextDamage]_vars

----------------------------------------------------------------------------
(* Claims *)

\* C1 (modal suspension): a tick that starts with a level-up choice pending
\* leaves the player's position, exp and level, every weapon's cooldown, the
\* active attacks, the enemies, the spawn timer and the score as they were;
\* hp changes only by the confirmed hp_up option (+50, capped at 200).
C1_ModalSuspension ==
    [][level_up_pending =>
         /\ player'.x = player.x /\ player'.y = player.y
         /\ player'.exp = player.exp /\ player'.level = player.level
         /\ \/ player'.hp = player.hp
            \/ /\ last'.applied = "hp_up"
               /\ player'.hp = FMin(FromInt(200), FAdd(player.hp, FromInt(50)))
         /\ \A i \in 1..Len(player.weapons) :
               player'.weapons[i].cooldown = player.weapons[i].cooldown
         /\ player'.attacks = player.attacks
         /\ enemies' = enemies
         /\ enemy_spawn_timer' = enemy_spawn_timer
         /\ score' = score]_vars

\* C1 witness: a level-up tick has just applied hp_up while attacks were in
\* flight, enemies on screen and the knife cooling down
C1_Witness ==
    /\ last.tick = "choose" /\ last.applied = "hp_up"
    /\ player.attacks # << >> /\ enemies # << >>
    /\ player.weapons[1].cooldown > 0 /\ enemy_spawn_timer > 0

ConfirmOnly(pressed) == "SPACE" \in pressed /\ "UP" \notin pressed /\ "DOWN" \notin pressed

\* C2 as claimed: every level-up tick with confirm pressed applies the
\* highlighted option and returns to Running; any other leaves the list pending.
C2_ConfirmAlwaysApplies ==
    [][(level_up_pending /\ last'.tick = "choose") =>
         IF "SPACE" \in last'.pressed
         THEN /\ player' = ApplyLevelUpOption(player, level_up_options[selected_option + 1])
              /\ ~level_up_pending' /\ selected_option' = 0
         ELSE level_up_pending' /\ level_up_options' = level_up_options]_vars

\* C2 (amended): a level-up tick in which confirm is pressed and neither up nor
\* down is (and the game is not quit) applies exactly the highlighted option
\* level_up_options[selected_option] and returns to Running with
\* selected_option = 0; every other tick leaves the same option list pending,
\* so the mode is left only through confirm.
C2_ConfirmApplies ==
    [][level_up_pending =>
         IF last'.tick = "choose" /\ ConfirmOnly(last'.pressed)
         THEN /\ player' = ApplyLevelUpOption(player, level_up_options[selected_option + 1])
              /\ last'.applied = level_up_options[selected_option + 1]
              /\ ~level_up_pending' /\ level_up_options' = << >> /\ selected_option' = 0
         ELSE /\ level_up_pending' /\ level_up_options' = level_up_options
              /\ player' = player]_vars

\* C2 witness: the third option (index 2) was highlighted and confirmed
C2_Witness ==
    /\ last.tick = "choose" /\ last.pressed = {"SPACE"} /\ last.applied = "hp_up"
    /\ ~level_up_pending /\ selected_option = 0
    /\ player.hp = FromInt(160)

\* C3: in every reachable state get_level_up_options returns between one and
\* three entries, the first of them knife_level_up.
C3_OptionsShape ==
    LET o == GetLevelUpOptions(player)
    IN  Len(o) \in 1..3 /\ o[1] = "knife_level_up"

\* C3 witness: a choice is pending with the list the call returned
C3_Witness ==
    /\ level_up_pending
    /\ level_up_options = GetLevelUpOptions(player)
    /\ Len(level_up_options) = 3

\* C4: get_level_up_options returns the first three of the candidates taken in
\* the priority order knife_level_up (always), holy_water_add (no holy water
\* held) or holy_water_level_up (held), hp_up (hp < 200), speed_up (speed < 4),
\* attack_speed (absent or level < 5), hp_regen (absent or level < 5).
C4_PriorityPrefix ==
    probe.op = "get_level_up_options" =>
        LET Offered(o) ==
                CASE o = "knife_level_up"      -> TRUE
                  [] o = "holy_water_add"      -> \A i \in 1..Len(player.weapons) :
                                                     player.weapons[i].type # "holy_water"
                  [] o = "holy_water_level_up" -> \E i \in 1..Len(player.weapons) :
                                                     player.weapons[i].type = "holy_water"
                  [] o = "hp_up"               -> FLt(player.hp, FromInt(200))
                  [] o = "speed_up"            -> FLt(Speed(player), FromInt(4))
                  [] o = "attack_speed"        -> player.passive_skills["attack_speed"] < 5
                  [] o = "hp_regen"            -> player.passive_skills["hp_regen"] < 5
            c == SelectSeq(<< "knife_level_up", "holy_water_add", "holy_water_level_up",
                              "hp_up", "speed_up", "attack_speed", "hp_regen" >>, Offered)
        IN  probe.result = SubSeq(c, 1, Min(3, Len(c)))

\* C4 witness: at hp 200 and speed 4 with holy water held, hp_up and speed_up
\* are skipped and attack_speed takes the third place
C4_Witness ==
    /\ probe.op = "get_level_up_options"
    /\ player.hp = FromInt(200) /\ Speed(player) = FromInt(4)
    /\ probe.result = << "knife_level_up", "holy_water_level_up", "attack_speed" >>

\* C5: gain_exp(amount) returns true iff exp + amount >= exp_to_next_level; it
\* then levels up exactly once (level + 1, exp = old exp + amount - old
\* threshold, threshold = floor(1.5 * old threshold)); otherwise only exp
\* changes.  From level 1, threshold 10, gaining 10 gives exp 0, threshold 15.
C5_GainExp ==
    probe.op = "gain_exp" =>
        LET b   == probe.before
            thr == b.exp_to_next_level
            new == player.exp_to_next_level
        IN  /\ probe.result <=> (b.exp + probe.amount >= thr)
            /\ probe.result =>
                  /\ player.level = b.level + 1
                  /\ player.exp = b.exp + probe.amount - thr
                  /\ 2 * new <= 3 * thr /\ 3 * thr < 2 * new + 2
            /\ ~probe.result => player = [b EXCEPT !.exp = b.exp + probe.amount]
            /\ (b.level = 1 /\ b.exp = 0 /\ thr = 10 /\ probe.amount = 10) =>
                  probe.result /\ player.exp = 0 /\ new = 15

\* C5 witness: 25 gained at level 1 passes the old threshold and the new one,
\* and the player still rises a single level
C5_Witness ==
    /\ probe.op = "gain_exp" /\ probe.result
    /\ probe.before.level = 1 /\ probe.before.exp = 0 /\ probe.amount = 25
    /\ player.level = 2 /\ player.exp = 15 /\ player.exp_to_next_level = 15

\* C6 as claimed: the player's hp stays within 0..200.
C6_HpInRange == FLe(FZero, player.hp) /\ FLe(player.hp, FromInt(200))

\* C7: a weapon that fires in Player.update leaves with cooldown
\* floor(max_cooldown * (1 - 0.1 * attack_speed level)), a value that is not
\* negative; no weapon's cooldown is ever below 0.
C7_CooldownAfterFiring ==
    /\ \A i \in 1..Len(player.weapons) : player.weapons[i].cooldown >= 0
    /\ last.tick = "player" =>
          \A i \in last.fired :
             LET w == player.weapons[i]
                 n == w.max_cooldown * (10 - player.passive_skills["attack_speed"])
             IN  10 * w.cooldown <= n /\ n < 10 * (w.cooldown + 1)

\* C7 witness: a level-2 knife (max_cooldown 28) fired at attack_speed level 3:
\* 28 * 0.7 = 19.6, cooldown 19
C7_Witness ==
    /\ last.tick = "player" /\ 1 \in last.fired
    /\ player.passive_skills["attack_speed"] = 3
    /\ player.weapons[1].max_cooldown = 28
    /\ player.weapons[1].cooldown = 19

\* C8: check_collision is true iff the two closed boxes [x, x+w] x [y, y+h]
\* share a point; (0,0,8,8) collides with (8,0,8,8) and not with (9,0,8,8).
C8_InclusiveOverlap ==
    probe.op = "check_collision" =>
        LET a == probe.a
            b == probe.b
        IN  /\ probe.result <=>
                  /\ \E px \in a[1]..(a[1] + a[3]) : px \in b[1]..(b[1] + b[3])
                  /\ \E py \in a[2]..(a[2] + a[4]) : py \in b[2]..(b[2] + b[4])
            /\ (a = << 0, 0, 8, 8 >> /\ b = << 8, 0, 8, 8 >>) => probe.result
            /\ (a = << 0, 0, 8, 8 >> /\ b = << 9, 0, 8, 8 >>) => ~probe.result

\* C8 witness: the edge-touching pair has been tested and found colliding
C8_Witness ==
    /\ probe.op = "check_collision"
    /\ probe.a = << 0, 0, 8, 8 >> /\ probe.b = << 8, 0, 8, 8 >>
    /\ probe.result

\* C9 as claimed: after a Running tick no attack with lifetime <= 0 is in the
\* active-attack list.
C9_NoDeadAttackAfterTick ==
    last.tick = "run" => \A i \in 1..Len(player.attacks) : player.attacks[i].lifetime > 0

\* C10 as claimed: with elapsed_minutes = 0 update_music never plays the ambient
\* channel; with elapsed_minutes > 0 it plays it once every 120 calls
\* (consecutive triggers 120 calls apart, never more than 120 calls without
\* one), each time with sound 8 + elapsed_minutes mod 3.
C10_AmbientEvery120 ==
    probe.op = "update_music" =>
        /\ elapsed_minutes = 0 => ~probe.ambient
        /\ elapsed_minutes > 0 =>
              /\ probe.since < 120
              /\ probe.ambient =>
                    /\ probe.gap \in {0, 120}
                    /\ \A i \in 1..Len(last.plays) :
                          last.plays[i][1] = 2 => last.plays[i][2] = 8 + (elapsed_minutes % 3)

\* C11 as claimed: in a Running tick an enemy takes a sacred_flame attack's
\* damage only if that attack's update reported a pulse in this tick (its
\* dot_timer reached 15 and was reset to 0).
C11_FlameDamageOnlyOnPulse ==
    last.tick = "run" => \A k \in last.flamed : player.attacks[k].dot_timer = 0

\* C12 as claimed: constructing an Enemy or a Weapon with a kind outside its
\* enumerated kinds raises an error and creates no entity.
C12_UnknownKindFails ==
    (/\ probe.op \in {"Enemy", "Weapon"}
     /\ probe.kind \notin (IF probe.op = "Enemy" THEN EnemyTypes ELSE WeaponTypes))
    => probe.raised /\ probe.entity = << >>

\* The rounding error allowed on a length that is `exactly` a given one: 2^-40
RoundingSlack == MkDouble(0, 1023 - 40, T26, 0)

\* C13 as claimed: an update of a zombie against a stationary target moves it
\* exactly `speed` straight toward the target when its distance is > 0 (up to
\* the rounding of the doubles), leaves it in place when the distance is 0,
\* and never increases the distance.
C13_ChaseConverges ==
    probe.op = "update" =>
        LET b  == probe.before
            e  == enemies[1]
            d0 == Distance(FSub(player.x, b.x), FSub(player.y, b.y))
            d1 == Distance(FSub(player.x, e.x), FSub(player.y, e.y))
            step == Distance(FSub(e.x, b.x), FSub(e.y, b.y))
        IN  /\ d0.e = 0 => (e.x = b.x /\ e.y = b.y)
            /\ d0.e # 0 => /\ FLe(FAbs(FSub(step, b.speed)), RoundingSlack)
                           /\ FLe(FAbs(FSub(FAdd(d1, step), d0)), RoundingSlack)
                              \/ FLe(FAbs(FSub(FAdd(d0, d1), step)), RoundingSlack)
            /\ FLe(d1, d0)

\* C14: after update_music the rhythm is boss iff enemy_count > 30, intense iff
\* 15 < enemy_count <= 30 and normal iff enemy_count <= 15, whatever it was
\* before; 31 enemies give boss, 16 intense, 10 normal.
C14_RhythmByCount ==
    probe.op = "update_music" =>
        /\ music.current_rhythm = "boss" <=> probe.count > 30
        /\ music.current_rhythm = "intense" <=> (15 < probe.count /\ probe.count <= 30)
        /\ music.current_rhythm = "normal" <=> probe.count <= 15
        /\ probe.count = 31 => music.current_rhythm = "boss"
        /\ probe.count = 16 => music.current_rhythm = "intense"
        /\ probe.count = 10 => music.current_rhythm = "normal"

\* C14 witness: a call with 30 enemies on a Music left in boss by the call
\* before sets intense
C14_Witness ==
    /\ probe.op = "update_music" /\ probe.calls = 2
    /\ probe.previous = "boss" /\ probe.count = 30
    /\ music.current_rhythm = "intense"

\* C15: for every enemy kind and every sequence of non-negative damage amounts,
\* take_damage never raises hp, and is_alive() is false exactly when the damage
\* received so far is at least the kind's initial hp.
C15_DamageMonotone ==
    probe.op = "take_damage" =>
        /\ enemies[1].hp <= probe.before
        /\ ~probe.alive <=>
              probe.total >= (CASE enemies[1].type = "zombie"   -> 10
                                [] enemies[1].type = "bat"      -> 8
                                [] enemies[1].type = "ghost"    -> 15
                                [] enemies[1].type = "skeleton" -> 12)

\* C15 witness: a zombie (hp 10) has taken exactly 10 in two hits of 5 and is
\* no longer alive
C15_Witness ==
    /\ probe.op = "take_damage" /\ probe.calls = 2 /\ probe.total = 10 /\ probe.before = 5
    /\ enemies[1].type = "zombie" /\ enemies[1].hp = 0 /\ ~probe.alive

\* The exp of a sequence of enemies, and the exp a player has been given since
\* level 1 (thresholds 10, 15, 22, 33, ... of the levels passed, plus exp)
RECURSIVE ExpOf(_)
ExpOf(es) == IF es = << >> THEN 0 ELSE Head(es).exp + ExpOf(Tail(es))

RECURSIVE ExpSpent(_)
ExpSpent(level) ==
    IF level <= 1 THEN 0
    ELSE LET prev == ExpSpent(level - 1)
             thr  == IF level = 2 THEN 10
                     ELSE ((prev - ExpSpent(level - 2)) * 3) \div 2
         IN  prev + thr

\* C16 (exactly-once death resolution): a Running tick removes every enemy
\* whose hp is <= 0 and no other, adds the exp of each removed enemy to the
\* score once and gives it to the player once; no enemy with hp <= 0 is left
\* at the end of a tick, and the score is the exp of all enemies removed so far
\* (which is also the exp the player has received).
C16_DeathsResolvedOnce ==
    /\ [](/\ \A i \in 1..Len(enemies) : enemies[i].hp > 0
          /\ score = ExpSpent(player.level) + player.exp)
    /\ [][last'.tick = "run" =>
            /\ \A i \in 1..Len(last'.removed) : last'.removed[i].hp <= 0
            /\ Len(enemies') + Len(last'.removed)
                  = Len(enemies) + (IF last'.spawned THEN 1 ELSE 0)
            /\ score' = score + ExpOf(last'.removed)
            /\ ExpSpent(player'.level) + player'.exp
                  = ExpSpent(player.level) + player.exp + ExpOf(last'.removed)]_vars

\* C16 witness: a tick has just removed two ghosts at once (exp 3 each) after
\* an earlier kill, and other enemies stay
C16_Witness ==
    /\ last.tick = "run" /\ Len(last.removed) = 2
    /\ last.removed[1].type = "ghost" /\ last.removed[2].type = "ghost"
    /\ enemies # << >> /\ score > 6

\* C17 as claimed: a Running tick ends with a level-up choice pending iff some
\* gain_exp call of the tick returned true, the player rises at most one level
\* in a tick, and the level rises only in a tick that opens a choice screen
\* (so level - 1 counts the screens opened).
C17_OneChoicePerLevelUp ==
    [][/\ last'.tick = "run" =>
             /\ level_up_pending' <=> last'.leveled > 0
             /\ player'.level - player.level = (IF level_up_pending' THEN 1 ELSE 0)
       /\ last'.tick # "run" => player'.level = player.level]_vars

\* C18 (spawn cadence): elapsed_frames counts the Running ticks; a Running tick
\* spawns exactly one enemy when it is the 30th, 60th, 90th, ... and none
\* otherwise; enemy_spawn_timer is within 0..29 after every tick (the number of
\* Running ticks since the last spawn) and stands still while a choice is
\* pending.
C18_SpawnCadence ==
    /\ [](enemy_spawn_timer \in 0..29 /\ enemy_spawn_timer = elapsed_frames % 30)
    /\ [][/\ last'.tick = "run" =>
               /\ elapsed_frames' = elapsed_frames + 1
               /\ last'.spawned <=> elapsed_frames' % 30 = 0
               /\ Len(enemies') + Len(last'.removed)
                     = Len(enemies) + (IF elapsed_frames' % 30 = 0 THEN 1 ELSE 0)
          /\ level_up_pending =>
               /\ enemy_spawn_timer' = enemy_spawn_timer
               /\ elapsed_frames' = elapsed_frames
               /\ enemies' = enemies]_vars

\* C18 witness: the 210th Running tick spawns an enemy, after a level-up
\* choice has paused the game on the way
C18_Witness ==
    /\ last.tick = "run" /\ last.spawned
    /\ elapsed_frames = 210 /\ enemy_spawn_timer = 0
    /\ player.level = 2

\* The lifetime L an attack of the given type is spawned with
SpawnLifetime(type) ==
    CASE type \in {"knife", "holy_water"} -> 30
      [] type = "magic_blade"             -> 45
      [] type = "sacred_flame"            -> 90

\* The number of collision resolutions an attack of the list has been part of
TicksTaken(a) == SpawnLifetime(a.type) - a.lifetime

\* The attacks of a list that have been part of fewer than L resolutions
RECURSIVE Unspent(_)
Unspent(as) ==
    IF as = << >> THEN << >>
    ELSE (IF TicksTaken(Head(as)) < SpawnLifetime(Head(as).type) THEN << Head(as) >> ELSE << >>)
         \o Unspent(Tail(as))

\* C19 (an attack lasts exactly L Running ticks): the list that a Running tick
\* resolves against the enemies holds, in order, the attacks of the previous
\* list that had been part of fewer than L resolutions, each now part of one
\* more, followed by the attacks spawned in this tick, part of their first; so
\* every attack of the list has been part of 1..L resolutions, one that has
\* been part of L is left out from the next Running tick on, and a tick that is
\* not Running leaves the list alone.
C19_AttackLastsLTicks ==
    /\ [](\A k \in 1..Len(player.attacks) :
            TicksTaken(player.attacks[k]) \in 1..SpawnLifetime(player.attacks[k].type))
    /\ [][/\ last'.tick = "run" =>
               LET old == Unspent(player.attacks)
                   new == player.attacks'
               IN  /\ Len(new) = Len(old) + Cardinality(last'.fired)
                   /\ \A k \in 1..Len(old) :
                        /\ new[k].type = old[k].type
                        /\ new[k].weapon = old[k].weapon
                        /\ TicksTaken(new[k]) = TicksTaken(old[k]) + 1
                   /\ \A k \in (Len(old) + 1)..Len(new) :
                        /\ new[k].weapon \in last'.fired
                        /\ TicksTaken(new[k]) = 1
          /\ last'.tick # "run" => player.attacks' = player.attacks]_vars

\* C19 witness: a Running tick has just resolved a sacred flame for the 90th
\* time and a knife for the 30th, while a younger flame is in the list too
C19_Witness ==
    /\ last.tick = "run"
    /\ \E k \in 1..Len(player.attacks) :
         player.attacks[k].type = "sacred_flame" /\ TicksTaken(player.attacks[k]) = 90
    /\ \E k \in 1..Len(player.attacks) :
         player.attacks[k].type = "knife" /\ TicksTaken(player.attacks[k]) = 30
    /\ \E k \in 1..Len(player.attacks) :
         player.attacks[k].type = "sacred_flame" /\ TicksTaken(player.attacks[k]) < 90

\* The cooldown C = floor(max_cooldown * (1 - b)) of weapon i of p, b being
\* 0.1 per level of the AttackSpeed skill
CadenceOf(p, i) ==
    (p.weapons[i].max_cooldown * (10 - p.passive_skills["attack_speed"])) \div 10

\* The attacks of weapon i in a list that were spawned in the tick just made
SpawnedBy(as, i) ==
    {k \in 1..Len(as) : as[k].weapon = i /\ as[k].lifetime = SpawnLifetime(as[k].type) - 1}

\* C20 (firing cadence): with level and AttackSpeed bonus fixed, a weapon fires
\* in tick n of consecutive Player.update calls exactly when n = 1, 1 + C,
\* 1 + 2C, ... (every tick if C = 0), each firing adds exactly one attack of that
\* weapon, and a weapon whose cooldown is still above 0 after the tick's
\* decrement adds none.
C20_FiringCadence ==
    /\ [](last.tick = "player" =>
            \A i \in 1..Len(player.weapons) :
               LET C == CadenceOf(player, i)
               IN  /\ i \in last.fired <=> (C = 0 \/ (probe.calls - 1) % C = 0)
                   /\ Cardinality(SpawnedBy(player.attacks, i))
                         = (IF i \in last.fired THEN 1 ELSE 0))
    /\ [][last'.tick = "player" =>
            \A i \in 1..Len(player.weapons) :
               Max(player.weapons[i].cooldown - 1, 0) > 0 => i \notin last'.fired]_vars

\* C20 witness: a level-3 knife (max_cooldown 26) at AttackSpeed level 2,
\* C = floor(20.8) = 20, fires for the second time in tick 21 while the
\* level-1 holy water beside it (max_cooldown 30, C = 24) does not
C20_Witness ==
    /\ last.tick = "player" /\ probe.calls = 21
    /\ Len(player.weapons) = 2
    /\ player.weapons[1].max_cooldown = 26
    /\ player.passive_skills["attack_speed"] = 2
    /\ CadenceOf(player, 1) = 20 /\ CadenceOf(player, 2) = 24
    /\ last.fired = {1}
    /\ player.weapons[2].cooldown = 4

\* C21 (regeneration): for a player holding HpRegen, Player.update sets hp to
\* min(200, hp + 0.1 * skill level), and so never lowers it.
C21_RegenClampedAt200 ==
    [][(last'.tick = "player" /\ player.passive_skills["hp_regen"] > 0) =>
          /\ player'.hp = FMin(FromInt(200),
                                FAdd(player.hp, SkillBonus("hp_regen", player.passive_skills["hp_regen"])))
          /\ FLe(player.hp, player'.hp)]_vars

\* C22 as claimed: every sound update_music plays on channel 1, the rhythm
\* track, is one of the rhythm sounds 5..7, whatever the rhythm pattern and
\* note_index, and never an ambient sound 8..10.
C22_RhythmSoundsOnly ==
    last.tick = "music" =>
        \A i \in 1..Len(last.plays) :
            last.plays[i][1] = 1 => last.plays[i][2] \in 5..7

\* The sounds a list of pyxel.play calls sends to a channel
PlaysOn(plays, ch) == SelectSeq(plays, LAMBDA c : c[1] = ch)

\* The number of frames after which a timer reaches 30 * 60 / (bpm * parts)
FramesToReach(bpm, parts) ==
    CHOOSE t \in 1..(30 * 60) :
        /\ t * bpm * parts >= 30 * 60
        /\ (t - 1) * bpm * parts < 30 * 60

\* The timers of play_music: a melody note is emitted exactly when melody_timer
\* reaches 1800 / bpm (and the timer is reset), the note is the one at
\* note_index of the selected melody and note_index advances by 1 modulo that
\* melody's length; the rhythm is triggered exactly when rhythm_timer reaches
\* half of 1800 / bpm, once per active instrument; and note_index always is a
\* valid index into the selected melody.
BeatTimers ==
    /\ [](music.note_index \in 0..(Len(MelodyPattern(music.current_melody)) - 1))
    /\ [][probe'.op = "update_music" =>
            LET bpm  == music'.current_bpm
                mel  == MelodyPattern(music'.current_melody)
                dueM == music.melody_timer + 1 >= FramesToReach(bpm, 1)
                dueR == music.rhythm_timer + 1 >= FramesToReach(bpm, 2)
            IN  /\ bpm = Bpm(probe.speed)
                /\ music'.melody_timer = (IF dueM THEN 0 ELSE music.melody_timer + 1)
                /\ music'.rhythm_timer = (IF dueR THEN 0 ELSE music.rhythm_timer + 1)
                /\ PlaysOn(last'.plays, 0)
                      = (IF dueM THEN << << 0, mel[music.note_index + 1] >> >> ELSE << >>)
                /\ music'.note_index
                      = (IF dueM THEN (music.note_index + 1) % Len(mel) ELSE music.note_index)
                /\ Len(PlaysOn(last'.plays, 1))
                      = (IF dueR THEN Cardinality(music'.active_instruments) ELSE 0)]_vars

\* Rhythm triggers occur twice as often as melody notes: the rhythm is
\* triggered with every melody note and once midway between two of them, so
\* the frames since the latest melody note are the frames since the latest
\* rhythm trigger, or those plus one rhythm period.
RhythmTwiceAsOften ==
    probe.op = "update_music" =>
        music.melody_timer \in {music.rhythm_timer,
                                music.rhythm_timer + FramesToReach(music.current_bpm, 2)}

\* C23 as claimed (beat cadence): the timers of play_music behave as in
\* BeatTimers, and rhythm triggers occur twice as often as melody notes (the
\* comment on the rhythm test of play_music says so too).
C23_BeatCadence == BeatTimers /\ []RhythmTwiceAsOften

\* The damage and the collision-box size that the attack loop of Game.update
\* applies for attack k of player p
AppliedDamage(p, k) == p.weapons[p.attacks[k].weapon].damage
AppliedRange(p, k) == p.weapons[p.attacks[k].weapon].range

\* C24 as claimed (an attack carries a snapshot of its weapon): a level-up
\* option chosen while attacks are active leaves the damage and the
\* collision-box size applied by every attack that is still to take part in a
\* collision resolution as they were.
C24_AttackKeepsSpawnStats ==
    [][last'.tick = "choose" =>
          /\ Len(player'.attacks) = Len(player.attacks)
          /\ \A k \in 1..Len(player.attacks) :
                AttackAlive(player.attacks[k]) =>
                   /\ AppliedDamage(player', k) = AppliedDamage(player, k)
                   /\ AppliedRange(player', k) = AppliedRange(player, k)]_vars

\* C25 (the highlighted option): while a choice is pending selected_option is a
\* valid index into level_up_options; a tick with up pressed moves it by -1 and
\* a tick with down (and not up) pressed by +1, modulo the number of options,
\* so from the first entry to the last and back; and it is 0 whenever a choice
\* opens or closes.
C25_SelectionIndex ==
    /\ [](level_up_pending => selected_option \in 0..(Len(level_up_options) - 1))
    /\ [][/\ (last'.tick = "choose" /\ "UP" \in last'.pressed) =>
               /\ selected_option' = (IF selected_option = 0
                                      THEN Len(level_up_options) - 1
                                      ELSE selected_option - 1)
               /\ level_up_pending' /\ level_up_options' = level_up_options
          /\ (last'.tick = "choose" /\ "DOWN" \in last'.pressed /\ "UP" \notin last'.pressed) =>
               /\ selected_option' = (IF selected_option = Len(level_up_options) - 1
                                      THEN 0
                                      ELSE selected_option + 1)
               /\ level_up_pending' /\ level_up_options' = level_up_options
          /\ level_up_pending' # level_up_pending => selected_option' = 0]_vars

\* C25 witness: with three options and the first highlighted, up was pressed
\* and the last is highlighted
C25_Witness ==
    /\ last.tick = "choose" /\ last.pressed = {"UP"}
    /\ level_up_pending /\ Len(level_up_options) = 3
    /\ selected_option = 2

\* The weapons of a type in a weapon list
OfType(ws, type) == {i \in 1..Len(ws) : ws[i].type = type}

\* C26 (the arsenal of the game): in every reachable state the weapon list holds
\* exactly one knife, at most one holy_water and no magic_blade or
\* sacred_flame; every step keeps the weapons held, in their places and of
\* their types, and at most appends one.
C26_Arsenal ==
    /\ [](/\ Cardinality(OfType(player.weapons, "knife")) = 1
          /\ Cardinality(OfType(player.weapons, "holy_water")) <= 1
          /\ OfType(player.weapons, "magic_blade") = {}
          /\ OfType(player.weapons, "sacred_flame") = {}
          /\ \A i \in 1..Len(player.weapons) : player.weapons[i].type \in WeaponTypes)
    /\ [][/\ Len(player'.weapons) \in {Len(player.weapons), Len(player.weapons) + 1}
          /\ \A i \in 1..Len(player.weapons) : player'.weapons[i].type = player.weapons[i].type]_vars

\* C26 witness: holy water has been added behind the knife and a later
\* choice has levelled it up, with no second holy water added
C26_Witness ==
    /\ Len(player.weapons) = 2
    /\ player.weapons[1].type = "knife" /\ player.weapons[2].type = "holy_water"
    /\ last.tick = "choose" /\ last.applied = "holy_water_level_up"
    /\ player.weapons[2].level = 2

\* C27 (no surplus exp): after every tick 0 <= player.exp <
\* player.exp_to_next_level, whatever the kills of the tick (each worth 1..3
\* exp), several at once and with a level-up among them included; the
\* threshold is 10 at level 1 and floor(1.5 * threshold) after each level-up.
C27_ExpBelowThreshold ==
    /\ [](/\ 0 <= player.exp /\ player.exp < player.exp_to_next_level
          /\ \A i \in 1..Len(enemies) : enemies[i].exp \in 1..3
          /\ player.level = 1 => player.exp_to_next_level = 10)
    /\ [][/\ \A i \in 1..Len(last'.removed) : last'.removed[i].exp \in 1..3
          /\ player'.level > player.level =>
                player'.exp_to_next_level > player.exp_to_next_level]_vars

\* C27 witness: a Running tick removed several enemies, levelled the player up
\* and left surplus exp, below the new threshold; the score is no multiple of
\* 3, so a zombie or a bat was among the enemies killed so far
C27_Witness ==
    /\ last.tick = "run" /\ Len(last.removed) >= 2 /\ last.leveled >= 1
    /\ score % 3 # 0
    /\ player.exp > 0 /\ player.exp < player.exp_to_next_level
    /\ player.level >= 2

=============================================================================
